---- MODULE Spec2Model ----
(***************************************************************************)
(* Incremental publish pipeline of bin/roughanimator_auto_publish.py.      *)
(*                                                                         *)
(* The project directory (layer schedules, cel images, parameters), the    *)
(* published output directory (frame-NNNN.png files, manifest.txt, the     *)
(* JSON state file, scratch directories) and the position of the publisher *)
(* process inside publish_animation are the state.  One publish cycle is   *)
(* split at the points where it touches the disk, so that a failure of a   *)
(* compositor subprocess and a kill of the process can fall between them.  *)
(***************************************************************************)
EXTENDS Integers, Sequences, FiniteSets, TLC

\* ------------------------------------------------------------------ bounds
MaxEdits == 2       \* changes made to the project / output tree from outside
MaxFaults == 1      \* compositor failures and process kills injected

\* ------------------------------------------------------- program constants
PUBLISH_STATE_VERSION == 1

\* ------------------------------------------------------------ small inputs
Layers == {1, 2}                       \* numerically named layer folders
CelStarts == {0, 2}                    \* cel files NNNN.png a layer may hold
Entry(s, d) == [start |-> s, duration |-> d]
Schedules ==
  { << >>,
    << Entry(0, 2) >>,
    << Entry(2, 1) >>,
    << Entry(0, 2), Entry(2, 1) >>,
    << Entry(0, 3), Entry(2, 1) >> }   \* the last one overlaps at index 2
NoBox == << >>                         \* detect_alpha_bbox returned None
BoxBig == <<10, 10, 60, 60>>
BoxSmall == <<20, 20, 10, 10>>         \* lies inside BoxBig
Boxes == {BoxBig, BoxSmall}
\* the cel files that get drawn, deleted and redrawn, and the schedules a
\* layer's layerData.txt is rewritten to
Drawable == {<<1, 0>>, <<1, 2>>, <<2, 0>>}
ScheduleChoices(l) == IF l = 1 THEN Schedules ELSE {<< >>, << Entry(0, 2) >>}
LeftRatios == {5000000, 6000000}       \* --left-ratio 0.5 and 0.6, in 10^-7
FrameIdx == 0 .. 2

Max2(a, b) == IF a >= b THEN a ELSE b
Min2(a, b) == IF a <= b THEN a ELSE b
SetMax(S) == CHOOSE x \in S : \A y \in S : y <= x

VARIABLES
  entries,      \* [Layers -> Seq(Entry)]: parsed layerData.txt of each layer
  cels,         \* [Layers -> [CelStarts -> cel file]]: the NNNN.png files
  meta,         \* data.txt: canvasWidth, canvasHeight, framesPerSecond (a
                \* float kept in units of 10^-7)
  bg,           \* pixel size of the base background image
  left_ratio,   \* command-line parameter, a float kept in units of 10^-7
  absent,       \* what publish_animation looks for and does not find
  inputStamps,  \* [TrackedFiles -> stamp]: size and mtime_ns of data.txt,
                \* camera.txt and each layer's layerData.txt
  outFiles,     \* [FrameIdx -> file]: frame-NNNN.png in the output directory
  manifest,     \* manifest.txt in the output directory
  stateFile,    \* .publish_state.json in the output directory
  scratch,      \* number of .publish_tmp.* directories under the output dir
  pc,           \* position of the publisher inside publish_animation
  cyc,          \* locals of the running cycle
  pre,          \* the output directory as it was when the cycle began
  outcome,      \* how the last cycle ended
  quiet,        \* the last cycle succeeded and nothing changed since
  hist,         \* what earlier cycles saw and did
  edits, faults,
  procs,        \* [Procs -> record]: the publisher processes inside main()
  locks,        \* [SyncRoots -> holder]: flock on <sync_root>/.publisher.lock
  tree,         \* [ProjectFiles -> mtime]: the project tree main() polls
  now,          \* the clock modification times are taken from
  compositorOk, \* ffmpeg and ffprobe exit zero
  call          \* a function of the program applied on its own: name,
                \* arguments, return value

env == <<entries, cels, meta, bg, left_ratio, absent, inputStamps>>
disk == <<outFiles, manifest, stateFile, scratch>>
mainv == <<procs, locks, tree, now, compositorOk, call>>
pubv == <<entries, cels, meta, bg, left_ratio, absent, inputStamps, outFiles,
          manifest, stateFile, scratch, pc, cyc, pre, outcome, quiet, hist>>
vars == <<entries, cels, meta, bg, left_ratio, absent, inputStamps, outFiles,
          manifest, stateFile, scratch, pc, cyc, pre, outcome, quiet, hist, edits,
          faults, procs, locks, tree, now, compositorOk, call>>

\* ---------------------------------------------------------------- files
\* A cel file: whether NNNN.png exists, the stamp (size and mtime_ns) of its
\* latest write, and the opaque-pixel bbox of what is drawn in it.  A file
\* written again gets a stamp that path never had.
CelFile(t, b) == [exists |-> TRUE, stamp |-> t, box |-> b]
Unlinked(c) == [exists |-> FALSE, stamp |-> c.stamp, box |-> NoBox]

\* file_signature: path, byte size and modification time of a cel.  The
\* (size, mtime_ns) pair is one stamp; the path is (layer, start).
file_signature(l, s) == <<l, s, cels[l][s].stamp>>

NoOut == [exists |-> FALSE, whole |-> FALSE, sigs |-> << >>, crop |-> << >>]
OutFile(sg, cr) == [exists |-> TRUE, whole |-> TRUE, sigs |-> sg, crop |-> cr]
PartialOut == [exists |-> TRUE, whole |-> FALSE, sigs |-> << >>, crop |-> << >>]

NoManifest == [exists |-> FALSE, whole |-> FALSE, lines |-> << >>]
PartialManifest == [exists |-> TRUE, whole |-> FALSE, lines |-> << >>]

NoState ==
  [kind |-> "absent", version |-> 0, global_sig |-> << >>, crop |-> << >>,
   framesIsDict |-> TRUE, frames |-> << >>, input_files |-> << >>,
   cel_bbox_cache |-> << >>]
\* a file json.loads rejects: empty, cut short, or not JSON at all
CorruptState == [NoState EXCEPT !.kind = "corrupt"]
\* a file holding JSON that is not an object, such as [] or null
NotObjectState == [NoState EXCEPT !.kind = "notdict"]

\* ------------------------------------------------------------- timeline
None == -1

\* Text is a sequence of character codes: "0" .. "9" are 48 .. 57, ":" is
\* 58, "." is 46, " " is 32.
isdigit(str) == str # << >> /\ \A i \in 1 .. Len(str) : str[i] \in 48 .. 57

\* int() of a string of digits
int(str) ==
  LET value[i \in 0 .. Len(str)] ==
        IF i = 0 THEN 0 ELSE value[i - 1] * 10 + (str[i] - 48)
  IN value[Len(str)]

\* str.strip(): leading and trailing blanks removed
strip(str) ==
  LET inked == {i \in 1 .. Len(str) : str[i] # 32}
  IN IF inked = {} THEN << >>
     ELSE SubSeq(str, CHOOSE i \in inked : \A j \in inked : i <= j, SetMax(inked))

\* str.split(":")
RECURSIVE split(_)
split(str) ==
  LET colons == {i \in 1 .. Len(str) : str[i] = 58}
  IN IF colons = {} THEN << str >>
     ELSE LET k == CHOOSE i \in colons : \A j \in colons : i <= j
          IN << SubSeq(str, 1, k - 1) >> \o split(SubSeq(str, k + 1, Len(str)))

\* a < b for two strings, character by character as Python compares them
RECURSIVE str_less(_, _)
str_less(a, b) ==
  IF b = << >> THEN FALSE
  ELSE IF a = << >> THEN TRUE
  ELSE IF Head(a) # Head(b) THEN Head(a) < Head(b)
  ELSE str_less(Tail(a), Tail(b))

\* sorted() of a set of file names of one folder
RECURSIVE sorted_names(_)
sorted_names(names) ==
  IF names = {} THEN << >>
  ELSE LET least == CHOOSE n \in names : \A m \in names \ {n} : str_less(n, m)
       IN << least >> \o sorted_names(names \ {least})

\* list.sort(key=lambda e: e.start): stable, ascending
RECURSIVE sort_by_start(_)
sort_by_start(es) ==
  IF es = << >> THEN << >>
  ELSE LET rest == sort_by_start(Tail(es))
           k == Cardinality({i \in 1 .. Len(rest) : rest[i].start < Head(es).start})
       IN SubSeq(rest, 1, k) \o << Head(es) >> \o SubSeq(rest, k + 1, Len(rest))

DotPng == <<46, 112, 110, 103>>                 \* ".png"
has_suffix(name, suffix) ==
  /\ Len(name) >= Len(suffix)
  /\ SubSeq(name, Len(name) - Len(suffix) + 1, Len(name)) = suffix
\* Path.stem of a name with a three-letter suffix
stem(name) == SubSeq(name, 1, Len(name) - 4)

\* Lines 210-219: the start:duration lines of layerData.txt, in file order.
timeline_rows(lines) ==
  LET rows[i \in 0 .. Len(lines)] ==
        IF i = 0 THEN << >>
        ELSE LET parts == split(strip(lines[i]))
             IN IF Len(parts) < 2 THEN rows[i - 1]
                ELSE IF ~(isdigit(parts[1]) /\ isdigit(parts[2])) THEN rows[i - 1]
                ELSE Append(rows[i - 1],
                            [start |-> int(parts[1]),
                             duration |-> Max2(1, int(parts[2]))])
  IN rows[Len(lines)]

\* Lines 226-231: every numerically named PNG of the folder, in the order
\* sorted() gives the paths, as an entry of duration 1.
fallback_entries(folder) ==
  LET pngs == sorted_names({n \in folder : has_suffix(n, DotPng)})
      fallback[i \in 0 .. Len(pngs)] ==
        IF i = 0 THEN << >>
        ELSE IF isdigit(stem(pngs[i]))
               THEN Append(fallback[i - 1],
                           [start |-> int(stem(pngs[i])), duration |-> 1])
               ELSE fallback[i - 1]
  IN fallback[Len(pngs)]

\* parse_layer_entries(layer_data_file, layer_dir): `lines` is the text of
\* layerData.txt, `folder` the names in the layer's folder.
parse_layer_entries(lines, folder) ==
  LET entries_ == timeline_rows(lines)
  IN IF entries_ # << >> THEN sort_by_start(entries_)
     ELSE fallback_entries(folder)

\* the loop leaving at the first covering entry
active_cel_start_first(es, frame_idx) ==
  LET hit == {i \in 1 .. Len(es) :
                /\ es[i].start <= frame_idx
                /\ frame_idx < es[i].start + es[i].duration}
  IN IF hit = {} THEN None
     ELSE es[CHOOSE i \in hit : \A j \in hit : i <= j].start

\* active_cel_start: the loop overwrites `active` at every covering entry, so
\* the last covering entry in list order wins.
active_cel_start(es, frame_idx) ==
  LET hit == {i \in 1 .. Len(es) :
                /\ es[i].start <= frame_idx
                /\ frame_idx < es[i].start + es[i].duration}
  IN IF hit = {} THEN None ELSE es[SetMax(hit)].start

\* timeline_frame_count: max_frame starts at -1 and is raised by every entry
\* of every layer; the result is max_frame + 1.
RECURSIVE all_entries(_, _)
all_entries(layers, i) ==
  IF i > Len(layers) THEN << >> ELSE layers[i] \o all_entries(layers, i + 1)

\* the count taken as the last frame index instead of one more
timeline_frame_count_last_index(layers) ==
  LET es == all_entries(layers, 1)
      max_frame[i \in 0 .. Len(es)] ==
        IF i = 0 THEN -1
        ELSE Max2(max_frame[i - 1], es[i].start + es[i].duration - 1)
  IN max_frame[Len(es)]

timeline_frame_count(layers) ==
  LET es == all_entries(layers, 1)
      max_frame[i \in 0 .. Len(es)] ==
        IF i = 0 THEN -1
        ELSE Max2(max_frame[i - 1], es[i].start + es[i].duration - 1)
  IN max_frame[Len(es)] + 1

LayerSeq == <<1, 2>>      \* discover_layers: sorted by folder name

\* The cels stacked for one output frame: for every layer in order, the cel
\* named by the active entry's start, if that file exists.
active_layers(frame_idx) ==
  LET F[i \in 0 .. Len(LayerSeq)] ==
        IF i = 0 THEN << >>
        ELSE LET l == LayerSeq[i]
                 s == active_cel_start(entries[l], frame_idx)
             IN IF s \in CelStarts /\ cels[l][s].exists
                  THEN Append(F[i - 1], <<l, s>>)
                  ELSE F[i - 1]
  IN F[Len(LayerSeq)]

\* "|".join(file_signature(path) for path in active_layers)
frame_signature(paths) ==
  [i \in 1 .. Len(paths) |-> file_signature(paths[i][1], paths[i][2])]

\* frame_names: the indices 0 .. frame_count-1 that have an active cel, in the
\* order the loop appends them.
frame_names_of(frame_count) ==
  LET F[n \in 0 .. frame_count] ==
        IF n = 0 THEN << >>
        ELSE IF active_layers(n - 1) = << >> THEN F[n - 1]
             ELSE Append(F[n - 1], n - 1)
  IN F[frame_count]

Range(s) == {s[i] : i \in 1 .. Len(s)}

\* ------------------------------------------------------- tracked inputs
\* A path relative to the project directory is <<folder, name>>, folder 0
\* the project directory itself and folder l the folder of layer l.
DataTxt == <<0, "data.txt">>
CameraTxt == <<0, "camera.txt">>
LayerDataTxt(l) == <<l, "layerData.txt">>
TrackedFiles == {DataTxt, CameraTxt} \cup {LayerDataTxt(l) : l \in Layers}
\* NNNN.png of a cel
cel_rel(c) == <<c[1], IF c[2] = 0 THEN "0000.png" ELSE "0002.png">>

\* track_input over data.txt, camera.txt if it exists, every layer's
\* layerData.txt and every cel of every frame: the stamp under each path
current_inputs_of(frames) ==
  LET files == {x \in TrackedFiles : inputStamps[x] # None}
      stacked == UNION {Range(frames[f]) : f \in DOMAIN frames}
  IN [k \in files \cup {cel_rel(c) : c \in stacked} |->
        IF k \in files THEN inputStamps[k]
        ELSE LET c == CHOOSE c \in stacked : cel_rel(c) = k
             IN cels[c[1]][c[2]].stamp]

\* the report without the paths whose stamp changed
changed_input_files_removed_only(current, prev) ==
  {[rel |-> k, removed |-> TRUE] : k \in DOMAIN prev \ DOMAIN current}

\* changed_input_files: the tracked paths that are new or have another stamp
\* than in the previous state, and "(removed) path" for those of the previous
\* state that are no longer tracked.  The sorted list has no duplicates and
\* is kept as the set of its lines.
changed_input_files_of(current, prev) ==
  {[rel |-> k, removed |-> FALSE] :
     k \in {k \in DOMAIN current : k \notin DOMAIN prev \/ prev[k] # current[k]}}
  \cup {[rel |-> k, removed |-> TRUE] : k \in DOMAIN prev \ DOMAIN current}

\* ------------------------------------------------------- bbox and crop
\* the bbox pass over the first layer only
candidates_first_layer(i) ==
  [k \in 1 .. Len(entries[LayerSeq[1]]) |->
     <<LayerSeq[1], entries[LayerSeq[1]][k].start>>]

\* Candidates of the bbox pass in visiting order: every entry of every layer.
RECURSIVE candidates_from(_)
candidates_from(i) ==
  IF i > Len(LayerSeq) THEN << >>
  ELSE LET l == LayerSeq[i]
       IN [k \in 1 .. Len(entries[l]) |-> <<l, entries[l][k].start>>]
            \o candidates_from(i + 1)

\* the union overwritten by every bbox instead of widened
union_bbox_overwriting(u, b) == IF b = NoBox THEN u ELSE b

union_bbox(u, b) ==
  IF b = NoBox THEN u
  ELSE IF u = NoBox THEN b
  ELSE LET x0 == Min2(u[1], b[1])
           y0 == Min2(u[2], b[2])
           x1 == Max2(u[1] + u[3], b[1] + b[3])
           y1 == Max2(u[2] + u[4], b[2] + b[4])
       IN <<x0, y0, x1 - x0, y1 - y0>>

\* A JSON string in the cache is kept as a one-element sequence that holds
\* it: no list of four.  "__MISSING__" is what prev_bbox_cache.get answers
\* for a key it does not hold.
MISSING == <<"__MISSING__">>

\* One visit of the bbox pass: skip a missing or already seen cel; otherwise
\* take the cached bbox for the cel's signature, or run the detector when the
\* cache has no entry for it.
bbox_step(acc, cand, prev_cache) ==
  LET l == cand[1]
      s == cand[2]
  IN IF ~(s \in CelStarts /\ cels[l][s].exists) \/ cand \in acc.seen THEN acc
     ELSE LET key == file_signature(l, s)
              missing == \/ key \notin DOMAIN prev_cache
                         \/ prev_cache[key] = MISSING
              bbox == IF missing THEN cels[l][s].box
                      ELSE IF Len(prev_cache[key]) = 4 THEN prev_cache[key]
                      ELSE NoBox
          IN [seen |-> acc.seen \cup {cand},
              cache |-> [k \in DOMAIN acc.cache \cup {key} |->
                           IF k = key THEN bbox ELSE acc.cache[k]],
              union |-> union_bbox(acc.union, bbox),
              measured |-> IF missing THEN acc.measured \cup {key}
                           ELSE acc.measured]

bbox_pass(prev_cache) ==
  LET cs == candidates_from(1)
      F[i \in 0 .. Len(cs)] ==
        IF i = 0
          THEN [seen |-> {}, cache |-> << >>, union |-> NoBox, measured |-> {}]
          ELSE bbox_step(F[i - 1], cs[i], prev_cache)
  IN F[Len(cs)]

\* the panel as wide as the background
left_width_of_whole_bg(bg_w, ratio) == bg_w

\* left_width = max(1, int(bg_w * left_ratio))
left_width_of(bg_w, ratio) == Max2(1, (bg_w * ratio) \div 10000000)

\* ------------------------------------------------- double precision
\* Python floats are IEEE 754 doubles: a 53-bit significand times a power of
\* two, every result rounded to the nearest such number, ties to the even
\* significand.  A significand is a sequence of digits in base 128, most
\* significant first, without leading zeros; << >> is zero.
Base == 128
pow2(k) == LET P[i \in 0 .. k] == IF i = 0 THEN 1 ELSE 2 * P[i - 1] IN P[k]

RECURSIVE from_int(_)
from_int(n) == IF n = 0 THEN << >> ELSE Append(from_int(n \div Base), n % Base)

to_int(a) ==
  LET V[i \in 0 .. Len(a)] == IF i = 0 THEN 0 ELSE V[i - 1] * Base + a[i]
  IN V[Len(a)]

norm(a) ==
  LET nz == {i \in 1 .. Len(a) : a[i] # 0}
  IN IF nz = {} THEN << >>
     ELSE SubSeq(a, CHOOSE i \in nz : \A j \in nz : i <= j, Len(a))

zeros(k) == [i \in 1 .. k |-> 0]

\* a * m for a small m
mul_small(a, m) ==
  LET R[i \in 0 .. Len(a)] ==
        IF i = 0 THEN [d |-> << >>, c |-> 0]
        ELSE LET p == R[i - 1]
                 x == a[Len(a) - i + 1] * m + p.c
             IN [d |-> << x % Base >> \o p.d, c |-> x \div Base]
      last == R[Len(a)]
  IN norm(from_int(last.c) \o last.d)

\* quotient and remainder of a by a small d
divmod_small(a, d) ==
  LET Q[i \in 0 .. Len(a)] ==
        IF i = 0 THEN [q |-> << >>, r |-> 0]
        ELSE LET p == Q[i - 1]
                 x == p.r * Base + a[i]
             IN [q |-> Append(p.q, x \div d), r |-> x % d]
      last == Q[Len(a)]
  IN [q |-> norm(last.q), r |-> last.r]

add(a, b) ==
  LET n == Max2(Len(a), Len(b))
      x == zeros(n - Len(a)) \o a
      y == zeros(n - Len(b)) \o b
      R[i \in 0 .. n] ==
        IF i = 0 THEN [d |-> << >>, c |-> 0]
        ELSE LET p == R[i - 1]
                 s == x[n - i + 1] + y[n - i + 1] + p.c
             IN [d |-> << s % Base >> \o p.d, c |-> s \div Base]
      last == R[n]
  IN norm(<< last.c >> \o last.d)

\* a < b
RECURSIVE less_digits(_, _)
less_digits(a, b) ==
  IF a = << >> THEN FALSE
  ELSE IF Head(a) # Head(b) THEN Head(a) < Head(b)
  ELSE less_digits(Tail(a), Tail(b))
big_less(a, b) ==
  IF Len(a) # Len(b) THEN Len(a) < Len(b) ELSE less_digits(a, b)

\* number of bits of a, a # << >>
bitlen(a) ==
  (Len(a) - 1) * 7 + (CHOOSE k \in 1 .. 7 : pow2(k - 1) <= a[1] /\ a[1] < pow2(k))

\* a * 2^k and floor(a / 2^k)
shl(a, k) == IF a = << >> THEN << >>
             ELSE mul_small(a, pow2(k % 7)) \o zeros(k \div 7)
shr(a, k) ==
  IF k \div 7 >= Len(a) THEN << >>
  ELSE divmod_small(SubSeq(a, 1, Len(a) - k \div 7), pow2(k % 7)).q

\* bit i of a, bit 0 the lowest
bit(a, i) ==
  IF i \div 7 >= Len(a) THEN 0
  ELSE (a[Len(a) - i \div 7] \div pow2(i % 7)) % 2
\* some bit of a below bit k is set
low_nonzero(a, k) == \E i \in 0 .. k - 1 : bit(a, i) = 1

Zero == [m |-> << >>, e |-> 0]

\* The double nearest to a * 2^e, where `sticky` says that a is the floor of
\* a number that is not whole.
round53(a, sticky, e) ==
  LET k == bitlen(a) - 53
  IN IF k <= 0 THEN [m |-> shl(a, 0 - k), e |-> e + k]
     ELSE LET q == shr(a, k)
              up == /\ bit(a, k - 1) = 1
                    /\ sticky \/ low_nonzero(a, k - 1) \/ bit(q, 0) = 1
              q2 == IF up THEN add(q, << 1 >>) ELSE q
          IN IF bitlen(q2) = 54 THEN [m |-> shr(q2, 1), e |-> e + k + 1]
             ELSE [m |-> q2, e |-> e + k]

\* n / d of two ints, and the double of a decimal literal n/d
fl_div(n, d) ==
  IF n = 0 THEN Zero
  ELSE LET dm == divmod_small(shl(from_int(n), 84), d)
       IN round53(dm.q, dm.r # 0, 0 - 84)

\* n * f for an int n
fl_mul(n, f) ==
  IF n = 0 \/ f.m = << >> THEN Zero ELSE round53(mul_small(f.m, n), FALSE, f.e)

fl_add(f, g) ==
  IF f.m = << >> THEN g
  ELSE IF g.m = << >> THEN f
  ELSE LET low == Min2(f.e, g.e)
       IN round53(add(shl(f.m, f.e - low), shl(g.m, g.e - low)), FALSE, low)

fl_less(f, g) ==
  IF g.m = << >> THEN FALSE
  ELSE IF f.m = << >> THEN TRUE
  ELSE IF f.e # g.e THEN f.e < g.e
  ELSE big_less(f.m, g.m)
fl_max(f, g) == IF fl_less(f, g) THEN g ELSE f

\* int(f) of a double that is not negative
fl_int(f) ==
  IF f.m = << >> THEN 0
  ELSE IF f.e >= 0 THEN to_int(shl(f.m, f.e))
  ELSE to_int(shr(f.m, 0 - f.e))

\* the mapped rectangle returned as it is, empty or not
crop_rect_no_fallback(src, lw, bh, cw, ch) ==
  LET scale == fl_max(fl_div(lw, cw), fl_div(bh, ch))
      up(v) == fl_int(fl_add(fl_mul(v, scale), fl_div(9999, 10000)))
      mapped_x0 == Max2(0, fl_int(fl_mul(src[1], scale)))
      mapped_y0 == Max2(0, fl_int(fl_mul(src[2], scale)))
      mapped_x1 == Min2(lw, up(src[1] + src[3]))
      mapped_y1 == Min2(bh, up(src[2] + src[4]))
  IN <<mapped_x0, mapped_y0, mapped_x1 - mapped_x0, mapped_y1 - mapped_y0>>

\* The crop rectangle in panel space of a source bbox: the corners times
\* scale = max(left_width / canvas_w, bg_h / canvas_h), in doubles, the low
\* corner cut by int(), the high corner by int(v + 0.9999).
crop_rect(src, lw, bh, cw, ch) ==
  LET scale == fl_max(fl_div(lw, cw), fl_div(bh, ch))
      up(v) == fl_int(fl_add(fl_mul(v, scale), fl_div(9999, 10000)))
      mapped_x0 == Max2(0, fl_int(fl_mul(src[1], scale)))
      mapped_y0 == Max2(0, fl_int(fl_mul(src[2], scale)))
      mapped_x1 == Min2(lw, up(src[1] + src[3]))
      mapped_y1 == Min2(bh, up(src[2] + src[4]))
  IN IF mapped_x1 <= mapped_x0 \/ mapped_y1 <= mapped_y0
       THEN <<0, 0, lw, bh>>
       ELSE <<mapped_x0, mapped_y0, mapped_x1 - mapped_x0, mapped_y1 - mapped_y0>>

\* ------------------------------------------------------- persisted state
default_publish_state ==
  [version |-> PUBLISH_STATE_VERSION, global_sig |-> << >>, crop |-> << >>,
   framesIsDict |-> TRUE, frames |-> << >>, input_files |-> << >>,
   cel_bbox_cache |-> << >>]

\* load_publish_state without the test of "version"
load_publish_state_any_version(f) ==
  IF f.kind = "absent" THEN default_publish_state
  ELSE IF f.kind = "corrupt" THEN default_publish_state
  ELSE IF f.kind = "notdict" THEN default_publish_state
  ELSE [version |-> PUBLISH_STATE_VERSION, global_sig |-> f.global_sig,
        crop |-> f.crop, framesIsDict |-> f.framesIsDict, frames |-> f.frames,
        input_files |-> f.input_files, cel_bbox_cache |-> f.cel_bbox_cache]

load_publish_state(f) ==
  IF f.kind = "absent" THEN default_publish_state
  ELSE IF f.kind = "corrupt" THEN default_publish_state
  ELSE IF f.kind = "notdict" THEN default_publish_state
  ELSE IF f.version # PUBLISH_STATE_VERSION THEN default_publish_state
  ELSE [version |-> PUBLISH_STATE_VERSION, global_sig |-> f.global_sig,
        crop |-> f.crop, framesIsDict |-> f.framesIsDict, frames |-> f.frames,
        input_files |-> f.input_files, cel_bbox_cache |-> f.cel_bbox_cache]

\* prev_frames = prev_frames_raw if isinstance(prev_frames_raw, dict) else {}
prev_frames_of(st) == IF st.framesIsDict THEN st.frames ELSE << >>

\* ------------------------------------------------------------ the cycle
\* What one run of publish_animation read from the project and the command
\* line: the values folded into global_sig, and the timeline's frame count.
NoRun ==
  [valid |-> FALSE, canvas |-> << >>, bg |-> << >>, left_width |-> 0,
   left_ratio |-> 0, fps |-> 0, frame_count |-> 0, nframes |-> 0]
RunInputs(cw, ch, b, lw, ratio, fps, count, n) ==
  [valid |-> TRUE, canvas |-> <<cw, ch>>, bg |-> b, left_width |-> lw,
   left_ratio |-> ratio, fps |-> fps, frame_count |-> count, nframes |-> n]

IdleCyc ==
  [frame_names |-> << >>, current_frames |-> << >>,
   current_frame_sigs |-> << >>, source_bbox_union |-> << >>,
   crop |-> << >>, global_sig |-> << >>,
   fps |-> 0, bg |-> << >>, force_full |-> FALSE, prev |-> default_publish_state,
   changed_frames |-> << >>, next |-> 1, rebuilt |-> {},
   bbox_cache |-> << >>, measured |-> {}, failed |-> FALSE,
   quietAtStart |-> FALSE, inputs |-> NoRun, known |-> {},
   current_inputs |-> << >>, changed_input_files |-> {}]

\* f"{x:.6f}" of a float kept in units of 10^-7: rounded to units of 10^-6
fixed6(x) == (x + 5) \div 10

\* global_sig: canvas, background, left_width, left_ratio and fps with six
\* decimals, and len(frame_names), folded into one string.
global_sig_of(cw, ch, bw, bh, lw, ratio, fps, nframes) ==
  <<cw, ch, bw, bh, lw, fixed6(ratio), fixed6(fps), nframes>>

\* force_full without the isinstance test of the stored frames
force_full_ignoring_frames(prev_state, global_sig, crop) ==
  \/ prev_state.global_sig # global_sig
  \/ prev_state.crop # crop

\* force_full without the comparison of the global signature
force_full_crop_only(prev_state, global_sig, crop) ==
  \/ prev_state.crop # crop
  \/ ~prev_state.framesIsDict

\* force_full that also looks at the tracked inputs
force_full_on_changed_inputs(prev_state, global_sig, crop) ==
  \/ prev_state.global_sig # global_sig
  \/ prev_state.crop # crop
  \/ ~prev_state.framesIsDict
  \/ changed_input_files_of(
       current_inputs_of([f \in FrameIdx |-> active_layers(f)]),
       prev_state.input_files) # {}

\* force_full (lines 590-594)
force_full_of(prev_state, global_sig, crop) ==
  \/ prev_state.global_sig # global_sig
  \/ prev_state.crop # crop
  \/ ~prev_state.framesIsDict

\* the staleness test without the look at the output file
is_stale_ignoring_disk(name, force_full, prev_frames, sigs, files) ==
  \/ force_full
  \/ (IF name \in DOMAIN prev_frames THEN prev_frames[name] # sigs[name]
      ELSE TRUE)

\* The staleness test of one active frame (lines 608-612).
is_stale(name, force_full, prev_frames, sigs, files) ==
  \/ force_full
  \/ (IF name \in DOMAIN prev_frames THEN prev_frames[name] # sigs[name]
      ELSE TRUE)
  \/ ~files[name].exists

\* changed_frames: the stale names in frame order.
changed_frames_of(names, force_full, prev_frames, sigs, files) ==
  LET F[n \in 0 .. Len(names)] ==
        IF n = 0 THEN << >>
        ELSE IF is_stale(names[n], force_full, prev_frames, sigs, files)
               THEN Append(F[n - 1], names[n])
               ELSE F[n - 1]
  IN F[Len(names)]

\* the sweep without the glob pass over frame-*.png
swept_state_only(files, prev_frames, sigs) ==
  [f \in FrameIdx |->
     IF f \in DOMAIN prev_frames \ DOMAIN sigs THEN NoOut ELSE files[f]]

\* The output directory after lines 596-603: every frame of the previous
\* state that is no longer active is unlinked, then every frame-*.png that is
\* not active.
swept(files, prev_frames, sigs) ==
  LET removed_frames == DOMAIN prev_frames \ DOMAIN sigs
      first == [f \in FrameIdx |->
                  IF f \in removed_frames THEN NoOut ELSE files[f]]
  IN [f \in FrameIdx |-> IF f \notin DOMAIN sigs THEN NoOut ELSE first[f]]

Line(k, v) == [key |-> k, val |-> v]

\* f"{a / b:.8f}" as the integer a / b * 10^8 rounded to nearest, by long
\* division one decimal at a time.
ratio8(a, b) ==
  LET D[n \in 0 .. 8] ==
        IF n = 0 THEN [val |-> a \div b, rem |-> a % b]
        ELSE LET p == D[n - 1]
             IN [val |-> p.val * 10 + (p.rem * 10) \div b,
                 rem |-> (p.rem * 10) % b]
      last == D[8]
  IN last.val + (IF 2 * last.rem >= b THEN 1 ELSE 0)

\* manifest.txt (lines 641-657)
manifest_lines(fps, crop, bgsize, names) ==
  << Line("comment", 0),
     Line("fps", fps),
     Line("overlay_x_ratio", ratio8(crop[1], bgsize[1])),
     Line("overlay_y_ratio", ratio8(crop[2], bgsize[2])),
     Line("overlay_w_ratio", ratio8(crop[3], bgsize[1])),
     Line("overlay_h_ratio", ratio8(crop[4], bgsize[2])) >>
  \o [i \in 1 .. Len(names) |-> Line("frame", names[i])]

\* the next state with the crop rectangle left out
next_state_without_crop(c) ==
  [kind |-> "json", version |-> PUBLISH_STATE_VERSION,
   global_sig |-> c.global_sig, crop |-> << >>, framesIsDict |-> TRUE,
   frames |-> c.current_frame_sigs, input_files |-> c.current_inputs,
   cel_bbox_cache |-> c.bbox_cache]

\* the next state with the new frame signatures merged into the old map
next_state_merging_frames(c) ==
  LET old == prev_frames_of(c.prev)
  IN [kind |-> "json", version |-> PUBLISH_STATE_VERSION,
      global_sig |-> c.global_sig, crop |-> c.crop, framesIsDict |-> TRUE,
      frames |-> [f \in DOMAIN old \cup DOMAIN c.current_frame_sigs |->
                    IF f \in DOMAIN c.current_frame_sigs
                      THEN c.current_frame_sigs[f] ELSE old[f]],
      input_files |-> c.current_inputs, cel_bbox_cache |-> c.bbox_cache]

\* next_state (lines 659-666)
next_state_of(c) ==
  [kind |-> "json", version |-> PUBLISH_STATE_VERSION,
   global_sig |-> c.global_sig, crop |-> c.crop, framesIsDict |-> TRUE,
   frames |-> c.current_frame_sigs, input_files |-> c.current_inputs,
   cel_bbox_cache |-> c.bbox_cache]

Snapshot == [outFiles |-> outFiles, manifest |-> manifest, stateFile |-> stateFile]
\* no cycle has run since the project or the output tree last changed
NoSnapshot ==
  [outFiles |-> [f \in FrameIdx |-> NoOut], manifest |-> NoManifest,
   stateFile |-> NoState]

frame_count == timeline_frame_count(entries)
frame_names == frame_names_of(frame_count)

\* What publish_animation looks for before it reads anything else.
Inputs == {"project_dir", "base_bg", "data.txt", "layerData.txt"}

\* the checks without the last one, of frame_names
config_failure_before_frames ==
  IF "project_dir" \in absent THEN "project dir not found"
  ELSE IF "base_bg" \in absent THEN "base background not found"
  ELSE IF "data.txt" \in absent THEN "missing RoughAnimator data file"
  ELSE IF "layerData.txt" \in absent THEN "no drawable layers found"
  ELSE IF frame_count <= 0 THEN "timeline frame count is zero"
  ELSE ""

\* The RuntimeError raised at lines 450-462 and 499-500, in the order of the
\* tests; "" when none is raised.  discover_layers returns no layer when no
\* numerically named folder holds a layerData.txt.
config_failure ==
  IF "project_dir" \in absent THEN "project dir not found"
  ELSE IF "base_bg" \in absent THEN "base background not found"
  ELSE IF "data.txt" \in absent THEN "missing RoughAnimator data file"
  ELSE IF "layerData.txt" \in absent THEN "no drawable layers found"
  ELSE IF frame_count <= 0 THEN "timeline frame count is zero"
  ELSE IF frame_names = << >> THEN "no output frames produced"
  ELSE ""

\* Lines 450-500: a configuration error is raised before anything is written.
config_error ==
  /\ pc = "idle"
  /\ config_failure # ""
  /\ outcome' = "error"
  /\ quiet' = FALSE
  /\ pre' = Snapshot
  /\ UNCHANGED <<env, disk, pc, cyc, hist, edits, faults>>

ConfigError ==
  /\ config_error
  /\ UNCHANGED mainv

\* Lines 450-594: read the project and the previous state, derive the frame
\* signatures, the bbox cache, the crop rectangle, the global signature and
\* force_full.  Nothing is written yet.
BeginCycle ==
  /\ pc = "idle"
  /\ config_failure = ""
  /\ LET prev_state == load_publish_state(stateFile)
         names == frame_names
         frames == [f \in Range(names) |-> active_layers(f)]
         sigs == [f \in Range(names) |-> frame_signature(frames[f])]
         lw == left_width_of(bg[1], left_ratio)
         pass == bbox_pass(prev_state.cel_bbox_cache)
         src == IF pass.union = NoBox THEN <<0, 0, meta.w, meta.h>>
                ELSE pass.union
         crop == crop_rect(src, lw, bg[2], meta.w, meta.h)
         gsig == global_sig_of(meta.w, meta.h, bg[1], bg[2], lw, left_ratio,
                               meta.fps, Len(names))
         current == current_inputs_of(frames)
     IN /\ cyc' = [IdleCyc EXCEPT
                     !.frame_names = names,
                     !.current_frames = frames,
                     !.current_frame_sigs = sigs,
                     !.source_bbox_union = src,
                     !.crop = crop,
                     !.global_sig = gsig,
                     !.fps = meta.fps,
                     !.bg = bg,
                     !.prev = prev_state,
                     !.force_full = force_full_of(prev_state, gsig, crop),
                     !.bbox_cache = pass.cache,
                     !.measured = pass.measured,
                     !.quietAtStart = quiet,
                     !.inputs = RunInputs(meta.w, meta.h, bg, lw, left_ratio,
                                          meta.fps, frame_count, Len(names)),
                     !.known = hist.measured,
                     !.current_inputs = current,
                     !.changed_input_files =
                       changed_input_files_of(current, prev_state.input_files)]
        /\ hist' = [hist EXCEPT !.measured = @ \cup pass.measured]
  /\ pre' = Snapshot
  /\ pc' = "sweep"
  /\ outcome' = "running"
  /\ UNCHANGED <<env, disk, quiet, edits, faults, mainv>>

\* Lines 596-616: unlink the frames that are no longer active, decide which
\* frames are stale, create the scratch directory.
SweepRemoved ==
  /\ pc = "sweep"
  /\ LET files == swept(outFiles, prev_frames_of(cyc.prev), cyc.current_frame_sigs)
     IN /\ outFiles' = files
        /\ cyc' = [cyc EXCEPT !.changed_frames =
                     changed_frames_of(cyc.frame_names, cyc.force_full,
                                       prev_frames_of(cyc.prev),
                                       cyc.current_frame_sigs, files)]
  /\ scratch' = scratch + 1
  /\ pc' = "compose"
  /\ UNCHANGED <<env, manifest, stateFile, pre, outcome, quiet, hist, edits,
                 faults, mainv>>

\* What the three compositor calls of one frame leave at the published path:
\* the flattened, panel-scaled stack of the frame's cels as they are on disk,
\* cropped to the cycle's crop rectangle.
composited(paths, crop) == OutFile(frame_signature(paths), crop)

\* Lines 620-639, one iteration: flatten and scale into the scratch
\* directory, then crop_overlay_frame writes the published frame file.
ComposeFrame ==
  /\ pc = "compose"
  /\ cyc.next <= Len(cyc.changed_frames)
  /\ LET name == cyc.changed_frames[cyc.next]
     IN /\ outFiles' = [outFiles EXCEPT ![name] =
                          composited(cyc.current_frames[name], cyc.crop)]
        /\ cyc' = [cyc EXCEPT !.next = @ + 1, !.rebuilt = @ \cup {name}]
  /\ UNCHANGED <<env, manifest, stateFile, scratch, pc, pre, outcome, quiet,
                 hist, edits, faults, mainv>>

\* the failure path with the state saved in the finally clause
ComposeFails_saving_state ==
  /\ pc = "compose"
  /\ cyc.next <= Len(cyc.changed_frames)
  /\ faults < MaxFaults
  /\ faults' = faults + 1
  /\ cyc' = [cyc EXCEPT !.failed = TRUE]
  /\ pc' = "finally"
  /\ stateFile' = next_state_of(cyc)
  /\ UNCHANGED <<env, outFiles, manifest, scratch, pre, outcome, quiet, hist,
                 edits, mainv>>

\* A compositor subprocess exits non-zero: RuntimeError, the try block is
\* left for the finally clause.
ComposeFails ==
  /\ pc = "compose"
  /\ cyc.next <= Len(cyc.changed_frames)
  /\ faults < MaxFaults
  /\ faults' = faults + 1
  /\ cyc' = [cyc EXCEPT !.failed = TRUE]
  /\ pc' = "finally"
  /\ UNCHANGED <<env, disk, pre, outcome, quiet, hist, edits, mainv>>

\* the manifest listing only the frames recomposited in this cycle
WriteManifest_changed_only ==
  /\ pc = "compose"
  /\ cyc.next > Len(cyc.changed_frames)
  /\ manifest' = [exists |-> TRUE, whole |-> TRUE,
                  lines |-> manifest_lines(cyc.fps, cyc.crop, cyc.bg,
                                           cyc.changed_frames)]
  /\ pc' = "save"
  /\ UNCHANGED <<env, outFiles, stateFile, scratch, cyc, pre, outcome, quiet,
                 hist, edits, faults, mainv>>

\* Lines 641-657
WriteManifest ==
  /\ pc = "compose"
  /\ cyc.next > Len(cyc.changed_frames)
  /\ manifest' = [exists |-> TRUE, whole |-> TRUE,
                  lines |-> manifest_lines(cyc.fps, cyc.crop, cyc.bg,
                                           cyc.frame_names)]
  /\ pc' = "save"
  /\ UNCHANGED <<env, outFiles, stateFile, scratch, cyc, pre, outcome, quiet,
                 hist, edits, faults, mainv>>

\* save_publish_state (lines 127-128, 659-667): write_text opens the state
\* file for writing and writes the JSON text into it.
SaveState ==
  /\ pc = "save"
  /\ stateFile' = next_state_of(cyc)
  /\ pc' = "finally"
  /\ UNCHANGED <<env, outFiles, manifest, scratch, cyc, pre, outcome, quiet,
                 hist, edits, faults, mainv>>

\* Lines 668-671: remove the scratch directory; return, or let the exception
\* reach the caller.
finally_return ==
  /\ pc = "finally"
  /\ scratch' = scratch - 1
  /\ pc' = "idle"
  /\ outcome' = IF cyc.failed THEN "error" ELSE "ok"
  /\ quiet' = ~cyc.failed
  /\ cyc' = IdleCyc
  /\ pre' = IF cyc.failed THEN pre ELSE NoSnapshot
  /\ hist' = IF cyc.failed THEN hist
             ELSE [hist EXCEPT !.lastOk = cyc.inputs, !.since = "nothing"]
  /\ UNCHANGED <<env, outFiles, manifest, stateFile, edits, faults>>

Finally ==
  /\ finally_return
  /\ UNCHANGED mainv

\* ------------------------------------------------------- process kills
\* The publisher process is killed between two steps of the cycle: no
\* handler runs, the scratch directory stays, a new process starts idle.
Killed ==
  /\ pc' = "idle"
  /\ cyc' = IdleCyc
  /\ outcome' = "killed"
  /\ quiet' = FALSE
  /\ faults' = faults + 1
  /\ hist' = [hist EXCEPT !.since = "other"]
  /\ UNCHANGED <<env, pre, edits, mainv>>

Kill ==
  /\ pc \in {"sweep", "compose", "save", "finally"}
  /\ faults < MaxFaults
  /\ Killed
  /\ UNCHANGED disk

\* Killed while crop_overlay_frame is writing the published frame file.
KillTornFrame ==
  /\ pc = "compose"
  /\ cyc.next <= Len(cyc.changed_frames)
  /\ faults < MaxFaults
  /\ Killed
  /\ outFiles' = [outFiles EXCEPT ![cyc.changed_frames[cyc.next]] = PartialOut]
  /\ UNCHANGED <<manifest, stateFile, scratch>>

\* Killed inside write_text of manifest.txt.
KillTornManifest ==
  /\ pc = "compose"
  /\ cyc.next > Len(cyc.changed_frames)
  /\ faults < MaxFaults
  /\ Killed
  /\ manifest' = PartialManifest
  /\ UNCHANGED <<outFiles, stateFile, scratch>>

\* Killed inside write_text of the state file: the file has been opened for
\* writing (truncated) and the JSON text is not, or not fully, in it.
KillTornState ==
  /\ pc = "save"
  /\ faults < MaxFaults
  /\ Killed
  /\ stateFile' = CorruptState
  /\ UNCHANGED <<outFiles, manifest, scratch>>

\* ------------------------------------------------ changes from outside
\* `kind` says what the change was: "added" for a new cel drawn inside the
\* bbox of what was drawn before, "input" for data.txt, camera.txt or a
\* layerData.txt written, "other" for anything else.  hist.since stays
\* "added", or "input", as long as nothing else happened since the last
\* success.
EditedAs(kind) ==
  /\ pc = "idle"
  /\ edits < MaxEdits
  /\ edits' = edits + 1
  /\ quiet' = FALSE
  /\ outcome' = "none"
  /\ pre' = NoSnapshot
  /\ hist' = [hist EXCEPT !.since =
                IF kind \in {"added", "input"} /\ @ \in {"nothing", kind}
                  THEN kind ELSE "other"]
  /\ UNCHANGED <<pc, cyc, faults, mainv>>

Edited == EditedAs("other")

\* A cel image is drawn or redrawn: new size and modification time.
TouchCel(l, s, b) ==
  /\ Edited
  /\ cels' = [cels EXCEPT ![l][s] = CelFile(cels[l][s].stamp + 1, b)]
  /\ UNCHANGED <<entries, meta, bg, left_ratio, absent, inputStamps, disk>>

DeleteCel(l, s) ==
  /\ Edited
  /\ cels[l][s].exists
  /\ cels' = [cels EXCEPT ![l][s] = Unlinked(cels[l][s])]
  /\ UNCHANGED <<entries, meta, bg, left_ratio, absent, inputStamps, disk>>

\* layerData.txt of a layer is rewritten.
SetSchedule(l, es) ==
  /\ EditedAs("input")
  /\ es # entries[l]
  /\ entries' = [entries EXCEPT ![l] = es]
  /\ inputStamps' = [inputStamps EXCEPT ![LayerDataTxt(l)] = @ + 1]
  /\ UNCHANGED <<cels, meta, bg, left_ratio, absent, disk>>

\* The publisher is started with another --left-ratio.
SetLeftRatio(r) ==
  /\ Edited
  /\ r # left_ratio
  /\ left_ratio' = r
  /\ UNCHANGED <<entries, cels, meta, bg, absent, inputStamps, disk>>

\* data.txt is rewritten with another canvas size or frame rate.
SetMeta(m) ==
  /\ EditedAs("input")
  /\ m # meta
  /\ meta' = m
  /\ inputStamps' = [inputStamps EXCEPT ![DataTxt] = @ + 1]
  /\ UNCHANGED <<entries, cels, bg, left_ratio, absent, disk>>

\* The base background image is replaced by one of another size.
SetBg(b) ==
  /\ Edited
  /\ b # bg
  /\ bg' = b
  /\ UNCHANGED <<entries, cels, meta, left_ratio, absent, inputStamps, disk>>

\* b lies inside u
within(b, u) ==
  /\ u # NoBox
  /\ u[1] <= b[1] /\ b[1] + b[3] <= u[1] + u[3]
  /\ u[2] <= b[2] /\ b[2] + b[4] <= u[2] + u[4]

\* entries.sort(key=lambda e: e.start) of the schedule with one more line
sorted_with(es, e) ==
  LET k == Cardinality({i \in 1 .. Len(es) : es[i].start <= e.start})
  IN [i \in 1 .. Len(es) + 1 |->
        IF i <= k THEN es[i] ELSE IF i = k + 1 THEN e ELSE es[i - 1]]

\* A new cel NNNN.png is drawn in a layer and its start:duration line is
\* added to the layer's layerData.txt.
AddCel(l, st, d, b) ==
  /\ ~cels[l][st].exists
  /\ \A i \in 1 .. Len(entries[l]) : entries[l][i].start # st
  /\ EditedAs(IF within(b, bbox_pass(<< >>).union) THEN "added" ELSE "other")
  /\ cels' = [cels EXCEPT ![l][st] = CelFile(cels[l][st].stamp + 1, b)]
  /\ entries' = [entries EXCEPT ![l] = sorted_with(entries[l], Entry(st, d))]
  /\ inputStamps' = [inputStamps EXCEPT ![LayerDataTxt(l)] = @ + 1]
  /\ UNCHANGED <<meta, bg, left_ratio, absent, disk>>

\* The project directory, the background image, data.txt or the layers'
\* layerData.txt files are moved away, and put back.
RemoveInput(x) ==
  /\ Edited
  /\ x \notin absent
  /\ absent' = absent \cup {x}
  /\ UNCHANGED <<entries, cels, meta, bg, left_ratio, inputStamps, disk>>

RestoreInput(x) ==
  /\ Edited
  /\ x \in absent
  /\ absent' = absent \ {x}
  /\ UNCHANGED <<entries, cels, meta, bg, left_ratio, inputStamps, disk>>

\* data.txt, camera.txt or a layerData.txt is written with nothing changed
\* that the publisher reads from it; camera.txt is created if there is none.
TouchInput(x) ==
  /\ EditedAs("input")
  /\ inputStamps' = [inputStamps EXCEPT ![x] = IF @ = None THEN 0 ELSE @ + 1]
  /\ UNCHANGED <<entries, cels, meta, bg, left_ratio, absent, disk>>

\* camera.txt is deleted.
RemoveCamera ==
  /\ EditedAs("input")
  /\ inputStamps[CameraTxt] # None
  /\ inputStamps' = [inputStamps EXCEPT ![CameraTxt] = None]
  /\ UNCHANGED <<entries, cels, meta, bg, left_ratio, absent, disk>>

\* A published frame file is removed from the output directory by hand.
RemoveOutput(f) ==
  /\ Edited
  /\ outFiles[f].exists
  /\ outFiles' = [outFiles EXCEPT ![f] = NoOut]
  /\ UNCHANGED <<env, manifest, stateFile, scratch>>

\* The state file is edited by hand so that "frames" is not an object.
TamperFrames ==
  /\ Edited
  /\ stateFile.kind = "json"
  /\ stateFile.framesIsDict
  /\ stateFile' = [stateFile EXCEPT !.framesIsDict = FALSE, !.frames = << >>]
  /\ UNCHANGED <<env, outFiles, manifest, scratch>>

\* The state file is overwritten with something that is no state: bytes
\* that cannot be read as JSON, or JSON that is not an object.
ReplaceState(f) ==
  /\ Edited
  /\ stateFile.kind = "json"
  /\ stateFile' = f
  /\ UNCHANGED <<env, outFiles, manifest, scratch>>

\* The state file is edited by hand so that the cached bbox of a cel is
\* something else than a list of four numbers or null.
TamperCache(key, v) ==
  /\ Edited
  /\ stateFile.kind = "json"
  /\ key \in DOMAIN stateFile.cel_bbox_cache
  /\ stateFile' = [stateFile EXCEPT !.cel_bbox_cache[key] = v]
  /\ UNCHANGED <<env, outFiles, manifest, scratch>>

\* The state file carries another "version", as one written by another
\* release of the publisher does.
TamperVersion ==
  /\ Edited
  /\ stateFile.kind = "json"
  /\ stateFile.version = PUBLISH_STATE_VERSION
  /\ stateFile' = [stateFile EXCEPT !.version = PUBLISH_STATE_VERSION + 1]
  /\ UNCHANGED <<env, outFiles, manifest, scratch>>

\* ----------------------------------------------------------- main()
Procs == {1, 2}
SyncRoots == {"ipad_a", "ipad_b"}        \* --sync-root
ProjectFiles == {"data.txt", "0000.png", "cover.jpg"}
NoSig == <<-1, -1>>                      \* last_sig = (-1, -1)
NoFiles == [f \in ProjectFiles |-> 0]

\* A process that has not been started.  `polled`, `okPolled`, `okDone` and
\* `failedPolled` remember the project tree as it was at the last poll, at
\* the poll and at the return of the last successful cycle, and at the poll
\* of the last failed one.
NoProc ==
  [pc |-> "off", sync_root |-> "ipad_a", once |-> FALSE, sync_device |-> FALSE,
   last_sig |-> NoSig, sig |-> NoSig, had_once_error |-> FALSE, first |-> TRUE,
   code |-> None, how |-> "", foundHeld |-> FALSE, busy |-> 0, syncs |-> 0,
   cycles |-> 0,
   ran |-> FALSE, retry |-> FALSE, failedSig |-> NoSig,
   polled |-> NoFiles, okPolled |-> NoFiles, okDone |-> NoFiles,
   failedPolled |-> NoFiles, startedUnchanged |-> FALSE,
   syncFailed |-> FALSE, publishFailed |-> FALSE, logged |-> << >>]

NoCall == [fn |-> "", args |-> << >>, done |-> FALSE, ret |-> << >>]
Called(f, a) == [fn |-> f, args |-> a, done |-> FALSE, ret |-> << >>]

\* no publisher process yet; the project holds data.txt and one cel
MainIdle ==
  /\ procs = [p \in Procs |-> NoProc]
  /\ locks = [r \in SyncRoots |-> 0]
  /\ tree = [f \in ProjectFiles |-> IF f = "cover.jpg" THEN 0 ELSE 1]
  /\ now = 1
  /\ compositorOk = TRUE
  /\ call = NoCall

Suffix(f) ==
  IF f = "data.txt" THEN "txt" ELSE IF f = "0000.png" THEN "png" ELSE "jpg"

\* project_signature: the latest st_mtime_ns and the number of the .png and
\* .txt files under project_dir; (0, 0) when there is none.
project_signature(t) ==
  LET counted == {f \in ProjectFiles : t[f] > 0 /\ Suffix(f) \in {"png", "txt"}}
  IN <<SetMax({t[f] : f \in counted} \cup {0}), Cardinality(counted)>>

InLoop == {"top", "poll", "publish", "after"}
Sat(n) == Min2(n + 1, 2)       \* a count kept as 0, 1, "2 or more"

\* what leaving the with block, or the death of the process, does to the
\* lock of process p
released(p) == [r \in SyncRoots |-> IF locks[r] = p THEN 0 ELSE locks[r]]

\* main() up to the lock (lines 828-852): a missing ffmpeg or ffprobe ends
\* the process with code 2.
Start(p, root, once, sync, tools) ==
  /\ procs[p].pc = "off"
  /\ procs' = [procs EXCEPT ![p] =
                 [NoProc EXCEPT !.pc = IF tools THEN "lock" ELSE "exited",
                                !.code = IF tools THEN None ELSE 2,
                                !.how = IF tools THEN "" ELSE "tools",
                                !.sync_root = root,
                                !.once = once,
                                !.sync_device = sync]]
  /\ UNCHANGED <<pubv, call, edits, faults, locks, tree, now, compositorOk>>

\* the exit of a process that found the lock taken, returning code 1
BusyExit_code_1(me) ==
  [me EXCEPT !.pc = "exited", !.code = 1, !.how = "busy", !.busy = Sat(@),
             !.logged = Append(@, "watcher_busy")]

\* Lines 156-159 and 903-905: BlockingIOError, the handle is closed, the
\* RuntimeError reaches main(), which logs watcher_busy and returns 0.
BusyExit(me) ==
  [me EXCEPT !.pc = "exited", !.code = 0, !.how = "busy", !.busy = Sat(@),
             !.logged = Append(@, "watcher_busy")]

\* single_instance_lock (lines 151-161): open the lock file under the
\* process's own sync root and try flock(LOCK_EX | LOCK_NB).
TryLock(p) ==
  /\ procs[p].pc = "lock"
  /\ IF locks[procs[p].sync_root] # 0
       THEN /\ procs' = [procs EXCEPT ![p] =
                           [BusyExit(@) EXCEPT !.foundHeld = TRUE]]
            /\ UNCHANGED locks
       ELSE /\ locks' = [locks EXCEPT ![procs[p].sync_root] = p]
            /\ procs' = [procs EXCEPT ![p].pc = "top"]
  /\ UNCHANGED <<pubv, call, edits, faults, tree, now, compositorOk>>

\* Line 856: no --sync-device, or next_sync_at not reached yet (it is 0.0 in
\* the first iteration).
SkipSync(p) ==
  /\ procs[p].pc = "top"
  /\ ~procs[p].sync_device \/ ~procs[p].first
  /\ procs' = [procs EXCEPT ![p].pc = "poll", ![p].first = FALSE]
  /\ UNCHANGED <<pubv, call, edits, faults, locks, tree, now, compositorOk>>

\* Lines 857-865, 870: sync_from_device returns.
SyncOk(p) ==
  /\ procs[p].pc = "top"
  /\ procs[p].sync_device
  /\ procs' = [procs EXCEPT ![p].pc = "poll", ![p].first = FALSE,
                             ![p].syncs = Sat(@)]
  /\ UNCHANGED <<pubv, call, edits, faults, locks, tree, now, compositorOk>>

\* Lines 866-870: sync_from_device raises.
SyncFails(p) ==
  /\ procs[p].pc = "top"
  /\ procs[p].sync_device
  /\ procs' = [procs EXCEPT ![p].pc = "poll", ![p].first = FALSE,
                             ![p].syncs = Sat(@),
                             ![p].syncFailed = TRUE,
                             ![p].had_once_error = @ \/ procs[p].once]
  /\ UNCHANGED <<pubv, call, edits, faults, locks, tree, now, compositorOk>>

\* the poll that starts a cycle at every tick
poll_always(me, t) ==
  [me EXCEPT !.sig = project_signature(t), !.polled = t, !.logged = << >>,
             !.pc = "publish", !.ran = TRUE, !.cycles = Sat(@),
             !.startedUnchanged = (me.last_sig # NoSig /\ t = me.okDone)]

\* Lines 872-873: sig = project_signature(project_dir); a cycle starts if
\* sig != last_sig.
poll(me, t) ==
  LET sig == project_signature(t)
  IN IF sig # me.last_sig
       THEN [me EXCEPT !.sig = sig, !.polled = t, !.logged = << >>,
                       !.pc = "publish", !.ran = TRUE, !.cycles = Sat(@),
                       !.startedUnchanged =
                          (me.last_sig # NoSig /\ t = me.okDone)]
       ELSE [me EXCEPT !.sig = sig, !.polled = t, !.logged = << >>,
                       !.pc = "after", !.ran = FALSE]

Poll(p) ==
  /\ procs[p].pc = "poll"
  /\ procs' = [procs EXCEPT ![p] = poll(@, tree)]
  /\ UNCHANGED <<pubv, call, edits, faults, locks, tree, now, compositorOk>>

\* the return recording the signature of the tree as it is by then
returned_resampling(me, t) ==
  [me EXCEPT !.pc = "after", !.last_sig = project_signature(t),
             !.retry = FALSE, !.okPolled = me.polled, !.okDone = t,
             !.logged = Append(@, "publish_ok")]

\* Lines 875-894: publish_animation returns, last_sig = sig, publish_ok.
returned(me, t) ==
  [me EXCEPT !.pc = "after", !.last_sig = me.sig, !.retry = FALSE,
             !.okPolled = me.polled, !.okDone = t,
             !.logged = Append(@, "publish_ok")]

PublishReturns(p) ==
  /\ procs[p].pc = "publish"
  /\ compositorOk
  /\ procs' = [procs EXCEPT ![p] = returned(@, tree)]
  /\ UNCHANGED <<pubv, call, edits, faults, locks, tree, now, compositorOk>>

\* the failure path recording the signature all the same
raised_advancing_sig(me) ==
  [me EXCEPT !.pc = "after", !.retry = TRUE, !.publishFailed = TRUE,
             !.last_sig = me.sig,
             !.failedSig = me.sig, !.failedPolled = me.polled,
             !.had_once_error = @ \/ me.once,
             !.logged = Append(@, "publish_error")]

\* Lines 895-898: publish_animation raises, publish_error; last_sig stays.
raised(me) ==
  [me EXCEPT !.pc = "after", !.retry = TRUE, !.publishFailed = TRUE,
             !.failedSig = me.sig, !.failedPolled = me.polled,
             !.had_once_error = @ \/ me.once,
             !.logged = Append(@, "publish_error")]

PublishRaises(p) ==
  /\ procs[p].pc = "publish"
  /\ ~compositorOk
  /\ procs' = [procs EXCEPT ![p] = raised(@)]
  /\ UNCHANGED <<pubv, call, edits, faults, locks, tree, now, compositorOk>>

\* the exit code of --once without the look at had_once_error
once_code_zero(me) == 0

\* Lines 907-909
once_code(me) == IF me.once /\ me.had_once_error THEN 1 ELSE 0

\* Lines 900-902 and 164-169: --once breaks out of the loop, the with block
\* unlocks and closes the lock file, main() returns; otherwise sleep.
After(p) ==
  /\ procs[p].pc = "after"
  /\ IF procs[p].once
       THEN /\ procs' = [procs EXCEPT ![p].pc = "exited",
                                       ![p].how = "returned",
                                       ![p].code = once_code(procs[p])]
            /\ locks' = released(p)
       ELSE /\ procs' = [procs EXCEPT ![p].pc = "top"]
            /\ UNCHANGED locks
  /\ UNCHANGED <<pubv, call, edits, faults, tree, now, compositorOk>>

\* the exception path leaving the lock held
raise_out_keeping_lock(p) == locks

\* Lines 162-169: an exception leaves the with block through the finally
\* clause, which unlocks and closes the lock file.
raise_out(p) == released(p)

\* An exception no handler of the loop catches (KeyboardInterrupt, an OSError
\* of rglob in project_signature) ends the process: exit code 130 or 1.
Crash(p, c) ==
  /\ procs[p].pc \in InLoop
  /\ procs' = [procs EXCEPT ![p].pc = "exited", ![p].code = c,
                             ![p].how = "raised"]
  /\ locks' = raise_out(p)
  /\ UNCHANGED <<pubv, call, edits, faults, tree, now, compositorOk>>

\* SIGKILL: no handler runs; the kernel closes the lock file and with it
\* drops the flock.
KillProc(p) ==
  /\ procs[p].pc \in InLoop
  /\ procs' = [procs EXCEPT ![p].pc = "exited", ![p].code = 137,
                             ![p].how = "killed"]
  /\ locks' = released(p)
  /\ UNCHANGED <<pubv, call, edits, faults, tree, now, compositorOk>>

BreakCompositor ==
  /\ compositorOk
  /\ faults < MaxFaults
  /\ faults' = faults + 1
  /\ compositorOk' = FALSE
  /\ UNCHANGED <<pubv, call, edits, procs, locks, tree, now>>

FixCompositor ==
  /\ ~compositorOk
  /\ compositorOk' = TRUE
  /\ UNCHANGED <<pubv, call, edits, faults, procs, locks, tree, now>>

\* A project file is written: its modification time is the current time.
WriteFile(f) ==
  /\ edits < MaxEdits
  /\ edits' = edits + 1
  /\ now' = now + 1
  /\ tree' = [tree EXCEPT ![f] = now + 1]
  /\ UNCHANGED <<pubv, call, faults, procs, locks, compositorOk>>

DeleteFile(f) ==
  /\ edits < MaxEdits
  /\ tree[f] > 0
  /\ edits' = edits + 1
  /\ tree' = [tree EXCEPT ![f] = 0]
  /\ UNCHANGED <<pubv, call, faults, procs, locks, now, compositorOk>>

\* A file is copied or pulled into the project with its modification time
\* preserved (shutil.copytree, line 744).
CopyIn(f, t) ==
  /\ edits < MaxEdits
  /\ t \in 1 .. now
  /\ tree[f] # t
  /\ edits' = edits + 1
  /\ tree' = [tree EXCEPT ![f] = t]
  /\ UNCHANGED <<pubv, call, faults, procs, locks, now, compositorOk>>

\* --------------------------------------------------------- specification
Init ==
  /\ entries = [l \in Layers |->
                  IF l = 1 THEN << Entry(0, 2), Entry(2, 1) >>
                  ELSE << Entry(0, 2) >>]
  /\ cels = [l \in Layers |->
               IF l = 1 THEN [s \in CelStarts |->
                                CelFile(0, IF s = 0 THEN BoxBig ELSE BoxSmall)]
               ELSE [s \in CelStarts |->
                       IF s = 0 THEN CelFile(0, BoxSmall)
                       ELSE Unlinked(CelFile(0, NoBox))]]
  /\ meta = [w |-> 100, h |-> 100, fps |-> 80000000]
  /\ bg = <<200, 100>>
  /\ left_ratio = 5000000
  /\ absent = {}
  /\ inputStamps = [x \in TrackedFiles |-> IF x = CameraTxt THEN None ELSE 0]
  /\ outFiles = [f \in FrameIdx |-> NoOut]
  /\ manifest = NoManifest
  /\ stateFile = NoState
  /\ scratch = 0
  /\ pc = "idle"
  /\ cyc = IdleCyc
  /\ pre = NoSnapshot
  /\ outcome = "none"
  /\ quiet = FALSE
  /\ hist = [lastOk |-> NoRun, since |-> "other", measured |-> {}]
  /\ edits = 0
  /\ faults = 0
  /\ MainIdle

Next ==
  \/ ConfigError
  \/ BeginCycle
  \/ SweepRemoved
  \/ ComposeFrame
  \/ ComposeFails
  \/ WriteManifest
  \/ SaveState
  \/ Finally
  \/ Kill
  \/ KillTornFrame
  \/ KillTornManifest
  \/ KillTornState
  \/ \E c \in Drawable, b \in Boxes : TouchCel(c[1], c[2], b)
  \/ \E c \in Drawable : DeleteCel(c[1], c[2])
  \/ \E l \in Layers : \E es \in ScheduleChoices(l) : SetSchedule(l, es)
  \/ \E r \in LeftRatios : SetLeftRatio(r)
  \/ \E f \in FrameIdx : RemoveOutput(f)
  \/ TamperFrames

Spec == Init /\ [][Next]_vars

\* ------------------------------------------- parameter and cel changes
\* The same publisher with the project's parameters changing between
\* cycles: canvas, frame rate, background, --left-ratio, schedules, cels.
Metas ==
  { [w |-> 100, h |-> 100, fps |-> 80000000],      \* framesPerSecond:8
    [w |-> 100, h |-> 100, fps |-> 80000001],      \* framesPerSecond:8.0000001
    [w |-> 100, h |-> 100, fps |-> 120000000],     \* framesPerSecond:12
    [w |-> 200, h |-> 100, fps |-> 80000000] }
Backgrounds == {<<200, 100>>, <<200, 120>>}
FineRatios == {5000000, 5000001, 6000000}          \* 0.5, 0.5000001, 0.6

InitParams ==
  /\ \E short \in BOOLEAN :
       /\ entries = [l \in Layers |->
                       IF l = 1 /\ ~short THEN << Entry(0, 2), Entry(2, 1) >>
                       ELSE << Entry(0, 2) >>]
       /\ cels = [l \in Layers |-> [st \in CelStarts |->
                    IF st = 0 THEN CelFile(0, IF l = 1 THEN BoxBig ELSE BoxSmall)
                    ELSE IF l = 1 /\ ~short THEN CelFile(0, BoxSmall)
                    ELSE Unlinked(CelFile(0, NoBox))]]
  /\ meta = [w |-> 100, h |-> 100, fps |-> 80000000]
  /\ bg = <<200, 100>>
  /\ left_ratio = 5000000
  /\ absent = {}
  /\ inputStamps = [x \in TrackedFiles |-> IF x = CameraTxt THEN None ELSE 0]
  /\ outFiles = [f \in FrameIdx |-> NoOut]
  /\ manifest = NoManifest
  /\ stateFile = NoState
  /\ scratch = 0
  /\ pc = "idle"
  /\ cyc = IdleCyc
  /\ pre = NoSnapshot
  /\ outcome = "none"
  /\ quiet = FALSE
  /\ hist = [lastOk |-> NoRun, since |-> "other", measured |-> {}]
  /\ edits = 0
  /\ faults = 0
  /\ MainIdle

NextParams ==
  \/ ConfigError
  \/ BeginCycle
  \/ SweepRemoved
  \/ ComposeFrame
  \/ ComposeFails
  \/ WriteManifest
  \/ SaveState
  \/ Finally
  \/ \E m \in Metas : SetMeta(m)
  \/ \E b \in Backgrounds : SetBg(b)
  \/ \E r \in FineRatios : SetLeftRatio(r)
  \/ \E es \in Schedules : SetSchedule(1, es)
  \/ \E c \in Drawable : DeleteCel(c[1], c[2])
  \/ \E l \in Layers, st \in CelStarts, b \in Boxes : AddCel(l, st, 1, b)

SpecParams == InitParams /\ [][NextParams]_vars

\* ------------------------------------------------- damaged state files
\* The publisher with the state file damaged or replaced between cycles.
NextState ==
  \/ BeginCycle
  \/ SweepRemoved
  \/ ComposeFrame
  \/ ComposeFails
  \/ WriteManifest
  \/ SaveState
  \/ Finally
  \/ KillTornState
  \/ \E f \in {CorruptState, NotObjectState} : ReplaceState(f)
  \/ TamperVersion
  \/ TamperFrames
  \/ \E c \in Drawable, b \in Boxes : TouchCel(c[1], c[2], b)
  \/ \E f \in FrameIdx : RemoveOutput(f)

SpecState == Init /\ [][NextState]_vars

\* ------------------------------------------------- publisher processes
\* Two publisher processes started with any --sync-root, --once and
\* --sync-device, publishing into the same --output-dir.
NextMain ==
  \/ \E p \in Procs, root \in SyncRoots, once, sync, tools \in BOOLEAN :
       Start(p, root, once, sync, tools)
  \/ \E p \in Procs : TryLock(p)
  \/ \E p \in Procs : SkipSync(p)
  \/ \E p \in Procs : SyncOk(p)
  \/ \E p \in Procs : SyncFails(p)
  \/ \E p \in Procs : Poll(p)
  \/ \E p \in Procs : PublishReturns(p)
  \/ \E p \in Procs : PublishRaises(p)
  \/ \E p \in Procs : After(p)
  \/ \E p \in Procs, c \in {1, 130} : Crash(p, c)
  \/ \E p \in Procs : KillProc(p)
  \/ BreakCompositor
  \/ FixCompositor

SpecMain == Init /\ [][NextMain]_vars

\* One publisher process in watch mode while the project changes.  The
\* process keeps running: after every step of the loop the next one follows.
WatchStep ==
  \/ TryLock(1)
  \/ SkipSync(1)
  \/ SyncOk(1)
  \/ SyncFails(1)
  \/ Poll(1)
  \/ PublishReturns(1)
  \/ PublishRaises(1)
  \/ After(1)

NextWatch ==
  \/ \E sync \in BOOLEAN : Start(1, "ipad_a", FALSE, sync, TRUE)
  \/ WatchStep
  \/ BreakCompositor
  \/ FixCompositor
  \/ \E f \in ProjectFiles : WriteFile(f)
  \/ \E f \in ProjectFiles : DeleteFile(f)
  \/ \E f \in ProjectFiles, t \in 1 .. MaxEdits + 1 : CopyIn(f, t)

SpecWatch == Init /\ [][NextWatch]_vars /\ WF_vars(WatchStep)

\* --------------------------------------------- the loop and the cycle
\* One publisher process whose publish step is the cycle above: the call of
\* publish_animation at line 875 and what main() does with its result.
\* Lines 450-500 and 895-898: publish_animation raises a configuration
\* error, main() logs publish_error and goes on.
PublishConfigError ==
  /\ procs[1].pc = "publish"
  /\ config_error
  /\ procs' = [procs EXCEPT ![1] = raised(@)]
  /\ UNCHANGED <<locks, tree, now, compositorOk, call>>

\* Line 875: publish_animation is called and gets past its checks.
PublishBegins ==
  /\ procs[1].pc = "publish"
  /\ BeginCycle

\* Lines 668-671 and 882-898: publish_animation returns or raises, and
\* main() logs publish_ok and records the signature, or logs publish_error.
PublishEnds ==
  /\ finally_return
  /\ procs' = [procs EXCEPT ![1] =
                 IF cyc.failed THEN raised(@) ELSE returned(@, tree)]
  /\ UNCHANGED <<locks, tree, now, compositorOk, call>>

\* the steps of the while loop around the call
LoopTurn ==
  \/ TryLock(1)
  \/ SkipSync(1)
  \/ Poll(1)
  \/ After(1)

LoopStep ==
  \/ LoopTurn
  \/ PublishConfigError
  \/ PublishBegins
  \/ SweepRemoved
  \/ ComposeFrame
  \/ WriteManifest
  \/ SaveState
  \/ PublishEnds

\* The project changes between cycles; the poll sees a change when a file
\* of the tree is written or deleted.
NextLoop ==
  \/ \E once \in BOOLEAN : Start(1, "ipad_a", once, FALSE, TRUE)
  \/ LoopStep
  \/ ComposeFails
  \/ \E x \in Inputs : RemoveInput(x)
  \/ \E x \in Inputs : RestoreInput(x)
  \/ \E es \in Schedules : SetSchedule(1, es)
  \/ \E c \in Drawable : DeleteCel(c[1], c[2])
  \/ \E f \in ProjectFiles : WriteFile(f)
  \/ \E f \in ProjectFiles : DeleteFile(f)

\* After the call has ended the loop sleeps and comes round again.
SpecLoop == Init /\ [][NextLoop]_vars /\ WF_vars(LoopTurn)

\* ------------------------------------------------------- timelines
\* Projects with any schedule of up to MaxLines lines in each layer, their
\* frame count, and their first publish.
MaxLines == 2
\* the lines that end inside frames 0 .. 2
TimelineEntries ==
  {e \in {Entry(st, d) : st \in FrameIdx, d \in 1 .. 3} :
     e.start + e.duration <= 3}
IsSorted(es) == \A i \in 1 .. Len(es) - 1 : es[i].start <= es[i + 1].start
\* what parse_layer_entries returns for layerData.txt files with lines
SortedSchedules ==
  {es \in UNION {[1 .. n -> TimelineEntries] : n \in 0 .. MaxLines} :
     IsSorted(es)}

InitTimeline ==
  /\ entries \in [Layers -> SortedSchedules]
  /\ cels = [l \in Layers |->
               IF l = 1 THEN [s \in CelStarts |->
                                CelFile(0, IF s = 0 THEN BoxBig ELSE BoxSmall)]
               ELSE [s \in CelStarts |->
                       IF s = 0 THEN CelFile(0, BoxSmall)
                       ELSE Unlinked(CelFile(0, NoBox))]]
  /\ meta = [w |-> 100, h |-> 100, fps |-> 80000000]
  /\ bg = <<200, 100>>
  /\ left_ratio = 5000000
  /\ absent = {}
  /\ inputStamps = [x \in TrackedFiles |-> IF x = CameraTxt THEN None ELSE 0]
  /\ outFiles = [f \in FrameIdx |-> NoOut]
  /\ manifest = NoManifest
  /\ stateFile = NoState
  /\ scratch = 0
  /\ pc = "idle"
  /\ cyc = IdleCyc
  /\ pre = NoSnapshot
  /\ outcome = "none"
  /\ quiet = FALSE
  /\ hist = [lastOk |-> NoRun, since |-> "other", measured |-> {}]
  /\ edits = 0
  /\ faults = 0
  /\ MainIdle

\* timeline_frame_count(layers) of the project's layers, on its own
CallTimelineFrameCount ==
  /\ pc = "idle"
  /\ call = NoCall
  /\ call' = [Called("timeline_frame_count", entries) EXCEPT
                !.done = TRUE, !.ret = timeline_frame_count(entries)]
  /\ UNCHANGED <<pubv, edits, faults, procs, locks, tree, now, compositorOk>>

NextTimeline ==
  \/ CallTimelineFrameCount
  \/ ConfigError
  \/ BeginCycle
  \/ SweepRemoved
  \/ ComposeFrame
  \/ WriteManifest
  \/ SaveState
  \/ Finally

SpecTimeline == InitTimeline /\ [][NextTimeline]_vars

\* ------------------------------------------------------ layer folders
\* Layer folders with any layerData.txt of up to MaxRows lines and any PNG
\* files, parsed, and the parsed entries asked for the cel of a frame.
MaxRows == 3
RowTexts ==
  { <<48, 58, 53>>,                 \* "0:5"
    <<51, 58, 53>>,                 \* "3:5"
    <<48, 58, 50>>,                 \* "0:2"
    <<32, 50, 58, 48>>,             \* " 2:0"
    <<120, 58, 49>> }               \* "x:1"
FolderNames ==
  { <<50, 46, 112, 110, 103>>,     \* "2.png"
    <<49, 48, 46, 112, 110, 103>>, \* "10.png"
    <<48, 48, 48, 51, 46, 112, 110, 103>>,   \* "0003.png"
    <<99, 46, 112, 110, 103>>,     \* "c.png"
    <<52, 46, 106, 112, 103>> }    \* "4.jpg"
LayerTexts == UNION {[1 .. n -> RowTexts] : n \in 0 .. MaxRows}
ProbeFrames == 0 .. 10

CallsOfParse ==
  {Called("parse_layer_entries", <<lines, folder>>) :
     lines \in LayerTexts, folder \in SUBSET FolderNames}
CallsOfActive ==
  {Called("active_cel_start", <<c.ret, i>>) :
     c \in {[x EXCEPT !.ret = parse_layer_entries(x.args[1], x.args[2])] :
              x \in CallsOfParse},
     i \in ProbeFrames}

InitLayers ==
  /\ entries = [l \in Layers |->
                  IF l = 1 THEN << Entry(0, 2), Entry(2, 1) >>
                  ELSE << Entry(0, 2) >>]
  /\ cels = [l \in Layers |->
               IF l = 1 THEN [s \in CelStarts |->
                                CelFile(0, IF s = 0 THEN BoxBig ELSE BoxSmall)]
               ELSE [s \in CelStarts |->
                       IF s = 0 THEN CelFile(0, BoxSmall)
                       ELSE Unlinked(CelFile(0, NoBox))]]
  /\ meta = [w |-> 100, h |-> 100, fps |-> 80000000]
  /\ bg = <<200, 100>>
  /\ left_ratio = 5000000
  /\ absent = {}
  /\ inputStamps = [x \in TrackedFiles |-> IF x = CameraTxt THEN None ELSE 0]
  /\ outFiles = [f \in FrameIdx |-> NoOut]
  /\ manifest = NoManifest
  /\ stateFile = NoState
  /\ scratch = 0
  /\ pc = "idle"
  /\ cyc = IdleCyc
  /\ pre = NoSnapshot
  /\ outcome = "none"
  /\ quiet = FALSE
  /\ hist = [lastOk |-> NoRun, since |-> "other", measured |-> {}]
  /\ edits = 0
  /\ faults = 0
  /\ procs = [p \in Procs |-> NoProc]
  /\ locks = [r \in SyncRoots |-> 0]
  /\ tree = [f \in ProjectFiles |-> IF f = "cover.jpg" THEN 0 ELSE 1]
  /\ now = 1
  /\ compositorOk = TRUE

InitParse == InitLayers /\ call \in CallsOfParse
InitActive == InitLayers /\ call \in CallsOfActive

ReturnParse ==
  /\ call.fn = "parse_layer_entries"
  /\ ~call.done
  /\ call' = [call EXCEPT !.done = TRUE,
                          !.ret = parse_layer_entries(call.args[1], call.args[2])]
  /\ UNCHANGED <<pubv, edits, faults, procs, locks, tree, now, compositorOk>>

ReturnActive ==
  /\ call.fn = "active_cel_start"
  /\ ~call.done
  /\ call' = [call EXCEPT !.done = TRUE,
                          !.ret = active_cel_start(call.args[1], call.args[2])]
  /\ UNCHANGED <<pubv, edits, faults, procs, locks, tree, now, compositorOk>>

SpecParse == InitParse /\ [][ReturnParse]_vars
SpecActive == InitActive /\ [][ReturnActive]_vars

\* ------------------------------------------------------ tracked inputs
\* The publisher, its compositor never failing, with data.txt, camera.txt
\* and the layerData.txt files written between cycles, with and without a
\* change of what they say, and with cels redrawn and frame files removed.
NextInputs ==
  \/ BeginCycle
  \/ SweepRemoved
  \/ ComposeFrame
  \/ WriteManifest
  \/ SaveState
  \/ Finally
  \/ \E x \in TrackedFiles : TouchInput(x)
  \/ RemoveCamera
  \/ \E es \in Schedules : SetSchedule(1, es)
  \/ \E c \in Drawable : TouchCel(c[1], c[2], BoxBig)
  \/ \E f \in FrameIdx : RemoveOutput(f)

SpecInputs == Init /\ [][NextInputs]_vars

\* ----------------------------------------------- damaged bbox cache
\* The publisher with cels drawn, redrawn and wiped, and with cached bboxes
\* replaced by a list of three, a string, and the string "__MISSING__".
InvalidBoxes == {<<10, 10, 60>>, <<"10,10,60,60">>, MISSING}
CelKeys == {<<c[1], c[2], t>> : c \in Drawable, t \in 0 .. MaxEdits}
NextCache ==
  \/ BeginCycle
  \/ SweepRemoved
  \/ ComposeFrame
  \/ WriteManifest
  \/ SaveState
  \/ Finally
  \/ \E k \in CelKeys, v \in InvalidBoxes : TamperCache(k, v)
  \/ \E c \in Drawable, b \in {NoBox, BoxBig} : TouchCel(c[1], c[2], b)

SpecCache == Init /\ [][NextCache]_vars

\* ---------------------------------------------------- the crop rectangle
\* The crop computation of publish_animation on its own: panel and canvas
\* sizes and source bboxes inside the canvas.
CropPanels == {<<100, 100>>, <<110, 100>>, <<120, 400>>, <<100, 50>>}
CropCanvases == {<<100, 100>>, <<300, 300>>, <<10001, 10001>>}
CropCorners == {0, 30, 150, 9900}
CropExtents == {1, 50, 100}
CallsOfCrop ==
  {Called("crop_rect", << <<x, y, w, h>>, p[1], p[2], c[1], c[2] >>) :
     <<x, y, w, h, p, c>> \in
       {t \in CropCorners \X CropCorners \X CropExtents \X CropExtents
                \X CropPanels \X CropCanvases :
          t[1] + t[3] <= t[6][1] /\ t[2] + t[4] <= t[6][2]}}

InitCrop == InitLayers /\ call \in CallsOfCrop

ReturnCrop ==
  /\ call.fn = "crop_rect"
  /\ ~call.done
  /\ call' = [call EXCEPT !.done = TRUE,
                          !.ret = crop_rect(call.args[1], call.args[2],
                                            call.args[3], call.args[4],
                                            call.args[5])]
  /\ UNCHANGED <<pubv, edits, faults, procs, locks, tree, now, compositorOk>>

SpecCrop == InitCrop /\ [][ReturnCrop]_vars

\* ------------------------------------------------- one small project
\* Canvas 100x100, one layer with the lines 0:2 and 2:1 and the cels
\* 0000.png and 0002.png, background 200x100, --left-ratio 0.5; any frame
\* rate and any drawing in the two cels.  The second layer folder has no
\* line and no cel.
FrameRates == {80000000, 120000000, 240000000, 299700000}  \* 8, 12, 24, 29.97

InitScenario ==
  /\ entries = [l \in Layers |->
                  IF l = 1 THEN << Entry(0, 2), Entry(2, 1) >> ELSE << >>]
  /\ \E b0, b2 \in Boxes \cup {NoBox} :
       cels = [l \in Layers |-> [st \in CelStarts |->
                 IF l = 1 THEN CelFile(0, IF st = 0 THEN b0 ELSE b2)
                 ELSE Unlinked(CelFile(0, NoBox))]]
  /\ \E fps \in FrameRates : meta = [w |-> 100, h |-> 100, fps |-> fps]
  /\ bg = <<200, 100>>
  /\ left_ratio = 5000000
  /\ absent = {}
  /\ inputStamps = [x \in TrackedFiles |-> IF x = CameraTxt THEN None ELSE 0]
  /\ outFiles = [f \in FrameIdx |-> NoOut]
  /\ manifest = NoManifest
  /\ stateFile = NoState
  /\ scratch = 0
  /\ pc = "idle"
  /\ cyc = IdleCyc
  /\ pre = NoSnapshot
  /\ outcome = "none"
  /\ quiet = FALSE
  /\ hist = [lastOk |-> NoRun, since |-> "other", measured |-> {}]
  /\ edits = 0
  /\ faults = 0
  /\ MainIdle

NextScenario ==
  \/ BeginCycle
  \/ SweepRemoved
  \/ ComposeFrame
  \/ ComposeFails
  \/ WriteManifest
  \/ SaveState
  \/ Finally

SpecScenario == InitScenario /\ [][NextScenario]_vars

\* ---------------------------------------------------------- drawings
\* Projects whose cels hold any of a few drawings, some of them apart from
\* each other, redrawn and deleted between cycles.
BoxLeft == <<0, 30, 15, 10>>
BoxLow == <<40, 65, 20, 30>>
Drawings == {NoBox, BoxBig, BoxLeft, BoxLow}
Redrawings == {NoBox, BoxLow}

InitBbox ==
  /\ \E es \in { << Entry(0, 1), Entry(0, 2) >>,
                  << Entry(0, 3), Entry(2, 1) >> } :
       entries = [l \in Layers |-> IF l = 1 THEN es ELSE << Entry(0, 2) >>]
  /\ \E b \in [Drawable -> Drawings] :
       cels = [l \in Layers |-> [st \in CelStarts |->
                 IF <<l, st>> \in Drawable THEN CelFile(0, b[<<l, st>>])
                 ELSE Unlinked(CelFile(0, NoBox))]]
  /\ meta = [w |-> 100, h |-> 100, fps |-> 80000000]
  /\ bg = <<200, 100>>
  /\ left_ratio = 5000000
  /\ absent = {}
  /\ inputStamps = [x \in TrackedFiles |-> IF x = CameraTxt THEN None ELSE 0]
  /\ outFiles = [f \in FrameIdx |-> NoOut]
  /\ manifest = NoManifest
  /\ stateFile = NoState
  /\ scratch = 0
  /\ pc = "idle"
  /\ cyc = IdleCyc
  /\ pre = NoSnapshot
  /\ outcome = "none"
  /\ quiet = FALSE
  /\ hist = [lastOk |-> NoRun, since |-> "other", measured |-> {}]
  /\ edits = 0
  /\ faults = 0
  /\ MainIdle

NextBbox ==
  \/ BeginCycle
  \/ SweepRemoved
  \/ ComposeFrame
  \/ WriteManifest
  \/ SaveState
  \/ Finally
  \/ \E c \in Drawable, b \in Redrawings : TouchCel(c[1], c[2], b)
  \/ \E c \in Drawable : DeleteCel(c[1], c[2])

SpecBbox == InitBbox /\ [][NextBbox]_vars

TypeOK ==
  /\ pc \in {"idle", "sweep", "compose", "save", "finally"}
  /\ outcome \in {"none", "running", "ok", "error", "killed"}
  /\ scratch \in 0 .. MaxFaults + 1

\* ------------------------------------------------------------- claims
\* The frame indices that have at least one layer whose active cel exists.
ActiveFrameSet ==
  {f \in FrameIdx :
     \E l \in Layers :
       LET s == active_cel_start(entries[l], f)
       IN s \in CelStarts /\ cels[l][s].exists}

Running == pc \in {"sweep", "compose", "save", "finally"}
Succeeded == pc = "finally" /\ ~cyc.failed
Present(files) == {f \in FrameIdx : files[f].exists}

\* The previous state as it is in the file the cycle found.
HasState ==
  pre.stateFile.kind = "json" /\ pre.stateFile.version = PUBLISH_STATE_VERSION
HasFrameMap == HasState /\ pre.stateFile.framesIsDict

\* C1: a kill of the publisher at any point of a cycle leaves the published
\* frames, manifest.txt and the state file exactly as they were when the
\* cycle began.
C1_KillLeavesPublishedTree ==
  outcome = "killed" =>
    /\ outFiles = pre.outFiles
    /\ manifest = pre.manifest
    /\ stateFile = pre.stateFile

\* C2: when a compositor subprocess fails, nothing the cycle produced is
\* under the published path: no frame file was replaced or deleted.
C2_FailedCyclePublishesNothing ==
  (pc = "finally" /\ cyc.failed) => outFiles = pre.outFiles

\* C3: a cycle run right after a successful one, with nothing changed in
\* between, rebuilds no frame and leaves manifest.txt and every published
\* frame file identical.
C3_Idempotent ==
  /\ (Running /\ cyc.quietAtStart) =>
       /\ cyc.changed_frames = << >>
       /\ cyc.rebuilt = {}
       /\ outFiles = pre.outFiles
  /\ (Succeeded /\ cyc.quietAtStart) => manifest = pre.manifest

C3_Witness ==
  /\ Succeeded
  /\ cyc.quietAtStart
  /\ Len(cyc.frame_names) >= 2

\* C4: inside a cycle the state file stays as found until every stale frame
\* has been composited and the manifest written; a cycle that fails leaves
\* it unchanged.
C4_StateSavedLast ==
  /\ pc \in {"sweep", "compose", "save"} => stateFile = pre.stateFile
  /\ (pc = "finally" /\ cyc.failed) => stateFile = pre.stateFile
  /\ (pc = "idle" /\ outcome = "error") => stateFile = pre.stateFile
  /\ (Running /\ stateFile # pre.stateFile) =>
       /\ cyc.rebuilt = Range(cyc.changed_frames)
       /\ \A f \in cyc.rebuilt : outFiles[f].whole
       /\ manifest.whole
       /\ manifest.lines =
            manifest_lines(cyc.fps, cyc.crop, cyc.bg, cyc.frame_names)

C4_Witness ==
  /\ pc = "finally"
  /\ cyc.failed
  /\ cyc.rebuilt # {}
  /\ pre.stateFile.kind = "json"

\* C5: the state file on disk always holds a complete state, the previous
\* one or the new one, also when the process is killed while saving.
C5_StateFileNeverTorn == stateFile.kind # "corrupt"

\* C6: after a successful cycle the keys of the persisted frames map are
\* exactly the active frames of the timeline.
C6_FramesKeysAreActive ==
  (Succeeded \/ (pc = "idle" /\ outcome = "ok" /\ quiet)) =>
    /\ stateFile.kind = "json"
    /\ stateFile.framesIsDict
    /\ DOMAIN stateFile.frames = ActiveFrameSet

C6_Witness ==
  /\ Succeeded
  /\ HasFrameMap
  /\ DOMAIN pre.stateFile.frames \ ActiveFrameSet # {}

ManifestFrames ==
  {manifest.lines[i].val :
     i \in {k \in 1 .. Len(manifest.lines) : manifest.lines[k].key = "frame"}}

\* C7: after a successful cycle the frame files in the output directory are
\* exactly the active frames: frames of the previous state that are no
\* longer active and leftover frame files are gone, from the directory and
\* from the manifest.
C7_DeletionSweep ==
  (Succeeded \/ (pc = "idle" /\ outcome = "ok" /\ quiet)) =>
    /\ Present(outFiles) = ActiveFrameSet
    /\ ManifestFrames = ActiveFrameSet

\* a leftover frame file the previous state does not know
C7_Witness ==
  /\ Succeeded
  /\ \E f \in Present(pre.outFiles) \ ActiveFrameSet :
       f \notin DOMAIN prev_frames_of(cyc.prev)

HeaderKeys ==
  <<"comment", "fps", "overlay_x_ratio", "overlay_y_ratio",
    "overlay_w_ratio", "overlay_h_ratio">>

\* C8: the manifest of a successful cycle is the comment line, the fps line,
\* the four overlay-ratio lines, then one path per active frame, recomposited
\* or not, in ascending frame order.
C8_ManifestListsActiveFrames ==
  Succeeded =>
    LET ls == manifest.lines
    IN /\ manifest.whole
       /\ Len(ls) = 6 + Cardinality(ActiveFrameSet)
       /\ \A i \in 1 .. 6 : ls[i].key = HeaderKeys[i]
       /\ \A i \in 7 .. Len(ls) : ls[i].key = "frame" /\ ls[i].val \in ActiveFrameSet
       /\ \A i, j \in 7 .. Len(ls) : i < j => ls[i].val < ls[j].val

C8_Witness ==
  /\ Succeeded
  /\ cyc.rebuilt # {}
  /\ ActiveFrameSet \ cyc.rebuilt # {}

\* C9: force_full holds exactly when the stored global signature differs from
\* the recomputed one, or the stored crop differs from the recomputed one, or
\* there is no valid previous frame map (no state file, a corrupt one, one of
\* another version, or one whose frames is no map).
C9_ForceFull ==
  Running =>
    (cyc.force_full <=>
       \/ ~HasFrameMap
       \/ pre.stateFile.global_sig # cyc.global_sig
       \/ pre.stateFile.crop # cyc.crop)

C9_Witness ==
  /\ Running
  /\ HasState
  /\ ~pre.stateFile.framesIsDict
  /\ pre.stateFile.global_sig = cyc.global_sig
  /\ pre.stateFile.crop = cyc.crop
  /\ cyc.force_full

C9_WitnessFalse == Running /\ ~cyc.force_full

StoredSigDiffers(f) ==
  \/ ~HasFrameMap
  \/ f \notin DOMAIN pre.stateFile.frames
  \/ pre.stateFile.frames[f] # frame_signature(active_layers(f))

\* C10: an active frame is recomposited if and only if force_full holds, or
\* its signature differs from the stored one, or its output file is missing;
\* the output file of every other active frame is left untouched.
C10_StaleIffRecomposited ==
  pc \in {"compose", "save", "finally"} =>
    LET stale == {f \in ActiveFrameSet :
                    \/ cyc.force_full
                    \/ StoredSigDiffers(f)
                    \/ ~pre.outFiles[f].exists}
    IN /\ Range(cyc.changed_frames) = stale
       /\ cyc.rebuilt \subseteq stale
       /\ (pc \in {"save", "finally"} /\ ~cyc.failed) => cyc.rebuilt = stale
       /\ \A f \in ActiveFrameSet \ stale : outFiles[f] = pre.outFiles[f]

C10_Witness ==
  /\ Succeeded
  /\ ~cyc.force_full
  /\ \E f \in cyc.rebuilt : ~StoredSigDiffers(f) /\ ~pre.outFiles[f].exists
  /\ \E f \in cyc.rebuilt : StoredSigDiffers(f)
  /\ ActiveFrameSet \ cyc.rebuilt # {}

\* The signature the run `r` folded its inputs into.
SigOfRun(r) ==
  global_sig_of(r.canvas[1], r.canvas[2], r.bg[1], r.bg[2], r.left_width,
                r.left_ratio, r.fps, r.nframes)

Planned == pc \in {"compose", "save", "finally"}
AllRecomposited ==
  /\ Range(cyc.changed_frames) = ActiveFrameSet
  /\ Succeeded => cyc.rebuilt = ActiveFrameSet

\* C11 as stated: whenever canvas size, background size, panel width,
\* left-ratio, fps or the timeline's total frame count differs from its value
\* at the previous successful run, the cycle recomposites every active frame.
C11_AnyInputChangeRebuildsAll ==
  (/\ Planned
   /\ hist.lastOk.valid
   /\ \/ cyc.inputs.canvas # hist.lastOk.canvas
      \/ cyc.inputs.bg # hist.lastOk.bg
      \/ cyc.inputs.left_width # hist.lastOk.left_width
      \/ cyc.inputs.left_ratio # hist.lastOk.left_ratio
      \/ cyc.inputs.fps # hist.lastOk.fps
      \/ cyc.inputs.frame_count # hist.lastOk.frame_count)
    => AllRecomposited

\* C11 amended: whenever canvas size, background size, panel width, the
\* left-ratio or the fps as printed with six decimals, or the number of active
\* frames differs from its value at the previous successful run, the cycle
\* recomposites every active frame.
C11_GlobalSigChangeRebuildsAll ==
  (/\ Planned
   /\ hist.lastOk.valid
   /\ SigOfRun(cyc.inputs) # SigOfRun(hist.lastOk))
    => AllRecomposited

\* only --left-ratio changed since the last success, no cel and no schedule
C11_Witness ==
  /\ Succeeded
  /\ hist.lastOk.valid
  /\ cyc.inputs.left_ratio # hist.lastOk.left_ratio
  /\ cyc.inputs.canvas = hist.lastOk.canvas
  /\ cyc.inputs.bg = hist.lastOk.bg
  /\ cyc.inputs.fps = hist.lastOk.fps
  /\ cyc.inputs.frame_count = hist.lastOk.frame_count
  /\ HasFrameMap
  /\ \A f \in ActiveFrameSet : ~StoredSigDiffers(f)
  /\ Cardinality(cyc.rebuilt) >= 2

\* Only new cels, each drawn inside the bbox of what was there and each with
\* its schedule line, were added to the project since the last success.
OnlyCelsAdded == Planned /\ hist.since = "added" /\ hist.lastOk.valid
CelsChanged == {f \in ActiveFrameSet : StoredSigDiffers(f)}
OnlyChangedRebuilt ==
  /\ Range(cyc.changed_frames) = CelsChanged
  /\ cyc.rebuilt \subseteq CelsChanged
  /\ \A f \in ActiveFrameSet \ CelsChanged : outFiles[f] = pre.outFiles[f]

C13_NeverRemeasured == Running => cyc.measured \cap cyc.known = {}

\* a state file load_publish_state does not accept
Unusable(f) ==
  \/ f.kind \in {"corrupt", "notdict"}
  \/ f.kind = "json" /\ f.version # PUBLISH_STATE_VERSION

\* C14: a state file that cannot be read as JSON, holds no JSON object or
\* carries another version counts as no prior state: the cycle loads the
\* default state, forces a full rebuild and recomposites every active frame;
\* if it fails, it fails at a compositor call with frames still to do.
C14_UnusableStateForcesFull ==
  /\ (Running /\ Unusable(pre.stateFile)) =>
       /\ cyc.prev = default_publish_state
       /\ cyc.force_full
       /\ cyc.failed => cyc.next <= Len(cyc.changed_frames)
  /\ (Planned /\ Unusable(pre.stateFile)) => AllRecomposited

\* a state file of another version that would otherwise match the project
C14_Witness ==
  /\ Succeeded
  /\ pre.stateFile.kind = "json"
  /\ pre.stateFile.version # PUBLISH_STATE_VERSION
  /\ pre.stateFile.global_sig = cyc.global_sig
  /\ pre.stateFile.crop = cyc.crop
  /\ pre.stateFile.framesIsDict
  /\ \A f \in ActiveFrameSet :
       /\ f \in DOMAIN pre.stateFile.frames
       /\ pre.stateFile.frames[f] = cyc.current_frame_sigs[f]
       /\ pre.outFiles[f].exists
  /\ cyc.rebuilt = ActiveFrameSet

C14_WitnessCorrupt == Succeeded /\ pre.stateFile.kind = "corrupt"
C14_WitnessNotObject == Succeeded /\ pre.stateFile.kind = "notdict"

\* C15: no two publisher processes are inside publish_animation at the same
\* time (all of them write the same output directory), whatever arguments
\* they were started with.
C15_SingleWriter ==
  \A p, q \in Procs :
    p # q => ~(procs[p].pc = "publish" /\ procs[q].pc = "publish")

\* C16: a process that found the lock held has exited with code 0 after one
\* watcher_busy event, without a device sync and without a publish cycle.
C16_BusyExitsClean ==
  \A p \in Procs :
    procs[p].foundHeld =>
      /\ procs[p].pc = "exited"
      /\ procs[p].code = 0
      /\ procs[p].busy = 1
      /\ procs[p].syncs = 0
      /\ procs[p].cycles = 0

C16_Witness ==
  \E p, q \in Procs :
    /\ procs[p].foundHeld
    /\ procs[p].pc = "exited"
    /\ procs[q].pc = "publish"
    /\ locks[procs[p].sync_root] = q

\* C17: a lock is held only by a process that is inside the watch loop: a
\* process that left it, by --once, by an exception or by dying, holds none,
\* so a process at the lock finds it taken only if another one is in the
\* loop under the same sync root.
C17_LockReleasedOnExit ==
  /\ \A r \in SyncRoots :
       locks[r] # 0 =>
         /\ procs[locks[r]].pc \in InLoop
         /\ procs[locks[r]].sync_root = r
  /\ \A p \in Procs :
       (procs[p].pc = "lock" /\ locks[procs[p].sync_root] # 0) =>
         \E q \in Procs \ {p} :
           procs[q].pc \in InLoop /\ procs[q].sync_root = procs[p].sync_root

\* the second process got the lock the first one held until it raised
C17_Witness ==
  \E p, q \in Procs :
    /\ procs[p].pc = "exited"
    /\ procs[p].how = "raised"
    /\ procs[q].pc \in InLoop
    /\ procs[q].sync_root = procs[p].sync_root
    /\ locks[procs[q].sync_root] = q

\* A failed cycle is pending: the signature it ran for is not recorded.
RetryInv == procs[1].retry => procs[1].last_sig # procs[1].failedSig
\* A tick after the failure that polls the project as the failed cycle
\* polled it has started a cycle again.
EveryTick ==
  (/\ procs[1].retry
   /\ procs[1].pc \in {"publish", "after"}
   /\ procs[1].polled = procs[1].failedPolled) => procs[1].ran
SameInput == tree = procs[1].failedPolled

\* C18: in watch mode a failed cycle leaves last_sig as it was, every later
\* tick that finds the project as the failed cycle found it runs a cycle
\* again, and once the compositor works for good a cycle succeeds unless the
\* project changes first.
C18_FailedCycleRetried ==
  /\ [](RetryInv /\ EveryTick)
  /\ (<>[]compositorOk) =>
       ((procs[1].retry /\ SameInput) ~> (~procs[1].retry \/ ~SameInput))

\* a cycle failed, and a later one succeeded on the same project
C18_Witness ==
  /\ procs[1].publishFailed
  /\ ~procs[1].retry
  /\ procs[1].last_sig = procs[1].failedSig
  /\ procs[1].okPolled = procs[1].failedPolled

\* C19 as stated: a cycle starts at a tick only if the signature differs
\* from the recorded one, and none starts while the project is as it was
\* when the last successful cycle returned.
C19_NoCycleWhileUnchanged ==
  procs[1].pc = "publish" =>
    /\ procs[1].sig # procs[1].last_sig
    /\ ~procs[1].startedUnchanged

\* C19 amended: a cycle starts at a tick only if the signature differs from
\* the recorded one, and none starts while the project is as it was at the
\* tick that started the last successful cycle.
C19_CycleOnlyOnNewSignature ==
  /\ procs[1].pc = "publish" =>
       /\ procs[1].sig # procs[1].last_sig
       /\ procs[1].last_sig # NoSig => procs[1].polled # procs[1].okPolled
  /\ (procs[1].pc = "after" /\ procs[1].last_sig # NoSig
       /\ procs[1].polled = procs[1].okPolled) =>
         (~procs[1].ran \/ procs[1].last_sig = procs[1].sig)

\* a tick after a success that found nothing new and ran no cycle
C19_Witness ==
  /\ procs[1].pc = "after"
  /\ ~procs[1].ran
  /\ procs[1].last_sig # NoSig
  /\ procs[1].polled = procs[1].okPolled

\* C20: with --once the loop body runs once, at most one cycle runs, and
\* main() returns 1 if the sync or the publish step failed and 0 otherwise.
C20_OnceExitCode ==
  \A p \in Procs :
    procs[p].once =>
      /\ procs[p].cycles <= 1
      /\ procs[p].pc = "top" => procs[p].first
      /\ (procs[p].pc = "exited" /\ procs[p].how = "returned") =>
           /\ procs[p].cycles = 1
           /\ procs[p].code \in {0, 1}
           /\ procs[p].code # 0 <=>
                (procs[p].syncFailed \/ procs[p].publishFailed)

\* the sync failed, the cycle succeeded, the exit code is 1
C20_Witness ==
  \E p \in Procs :
    /\ procs[p].once
    /\ procs[p].how = "returned"
    /\ procs[p].syncFailed
    /\ ~procs[p].publishFailed
    /\ procs[p].code = 1

C20_WitnessOk ==
  \E p \in Procs :
    procs[p].once /\ procs[p].how = "returned" /\ procs[p].code = 0

\* The project cannot be published: something publish_animation needs is
\* missing, no layer has an entry, or no frame has a cel that exists.
ConfigFault ==
  \/ absent # {}
  \/ \A l \in Layers : entries[l] = << >>
  \/ ActiveFrameSet = {}

\* main() has handled a configuration error of this tick's cycle
ConfigErrorHandled ==
  /\ procs[1].pc = "after"
  /\ procs[1].ran
  /\ outcome = "error"
  /\ ConfigFault

\* C21: a configuration error stops the cycle before a frame file, the
\* manifest or the state file is touched, main() logs one publish_error for
\* it, and in watch mode the loop goes on to the next poll.
C21_ConfigErrorAborts ==
  /\ [](ConfigFault => ~Running)
  /\ [](ConfigErrorHandled =>
          /\ outFiles = pre.outFiles
          /\ manifest = pre.manifest
          /\ stateFile = pre.stateFile
          /\ scratch = 0
          /\ procs[1].logged = << "publish_error" >>)
  /\ (ConfigErrorHandled /\ ~procs[1].once) ~> (procs[1].pc = "poll")

\* a configuration error in watch mode after frames were published
C21_Witness ==
  /\ ConfigErrorHandled
  /\ ~procs[1].once
  /\ Present(outFiles) # {}
  /\ stateFile.kind = "json"

\* last frame index of every line of every layer
LastIndices(layers) ==
  UNION {{layers[l][i].start + layers[l][i].duration - 1 :
            i \in 1 .. Len(layers[l])} : l \in DOMAIN layers}

\* C22: timeline_frame_count returns 1 + max(start + duration - 1) over the
\* entries of all layers, and 0 when there is no entry; a project without
\* any entry is never published, its cycle ends in a configuration error.
C22_TimelineFrameCount ==
  /\ (call.fn = "timeline_frame_count" /\ call.done) =>
       call.ret = IF LastIndices(call.args) = {} THEN 0
                  ELSE 1 + SetMax(LastIndices(call.args))
  /\ LastIndices(entries) = {} =>
       /\ ~Running
       /\ outcome \in {"none", "error"}
  /\ Running => cyc.inputs.frame_count = 1 + SetMax(LastIndices(entries))

\* two layers whose latest line is not the last one visited
C22_Witness ==
  /\ call.fn = "timeline_frame_count"
  /\ call.done
  /\ call.ret = 3
  /\ Len(call.args[1]) = 2
  /\ call.args[1][1].start + call.args[1][1].duration = 3
  /\ call.args[2] # << >>

\* no line at all: the count is 0 and the cycle ended in an error
C22_WitnessEmpty ==
  /\ call.fn = "timeline_frame_count"
  /\ call.done
  /\ call.ret = 0
  /\ outcome = "error"

\* the entries that cover a frame index
Covering(es, idx) ==
  {i \in 1 .. Len(es) : es[i].start <= idx /\ idx < es[i].start + es[i].duration}

\* C23: active_cel_start returns the start of the covering entry that comes
\* last in start order, and none when no entry covers the frame index;
\* with (0,5) and (3,5), frame index 4 gives 3.
C23_ActiveCelStart ==
  (call.fn = "active_cel_start" /\ call.done) =>
    LET es == call.args[1]
        hit == Covering(es, call.args[2])
    IN call.ret = IF hit = {} THEN None ELSE SetMax({es[i].start : i \in hit})

C23_Witness ==
  /\ call.fn = "active_cel_start"
  /\ call.done
  /\ call.args = << << Entry(0, 5), Entry(3, 5) >>, 4 >>
  /\ call.ret = 3

\* no entry covers the frame index
C23_WitnessNone ==
  /\ call.fn = "active_cel_start"
  /\ call.done
  /\ call.args[1] # << >>
  /\ call.ret = None

\* C25: the entries parse_layer_entries returns are sorted by start
\* ascending, from schedule lines and from the PNG names alike.
C25_EntriesSorted ==
  (call.fn = "parse_layer_entries" /\ call.done) => IsSorted(call.ret)

\* C24: in the small project the panel is 100 wide, frames 0 and 1 are made
\* of cel 0000.png and frame 2 of cel 0002.png, the three frames are what is
\* published, and the manifest's fps line is the frame rate of data.txt.
C24_Scenario ==
  /\ Running => cyc.inputs.left_width = 100
  /\ Succeeded =>
       /\ cyc.frame_names = <<0, 1, 2>>
       /\ Present(outFiles) = {0, 1, 2}
       /\ \A f \in FrameIdx : outFiles[f].whole
       /\ outFiles[0].sigs = << file_signature(1, 0) >>
       /\ outFiles[1].sigs = << file_signature(1, 0) >>
       /\ outFiles[2].sigs = << file_signature(1, 2) >>
       /\ ManifestFrames = {0, 1, 2}
       /\ manifest.lines[2] = Line("fps", meta.fps)

\* the first publish of the project, at 12 frames per second
C24_Witness ==
  /\ Succeeded
  /\ cyc.rebuilt = {0, 1, 2}
  /\ meta.fps = 120000000
  /\ entries[2] = << >>

\* the cel files some entry of some layer names and that exist
ReferencedCels ==
  {c \in Layers \X CelStarts :
     /\ \E k \in 1 .. Len(entries[c[1]]) : entries[c[1]][k].start = c[2]
     /\ cels[c[1]][c[2]].exists}
DrawnBoxes == {cels[c[1]][c[2]].box : c \in ReferencedCels} \ {NoBox}
SetMin(S) == CHOOSE x \in S : \A y \in S : x <= y
\* the smallest rectangle that contains every rectangle of B
Enclosing(B) ==
  LET x0 == SetMin({b[1] : b \in B})
      y0 == SetMin({b[2] : b \in B})
      x1 == SetMax({b[1] + b[3] : b \in B})
      y1 == SetMax({b[2] + b[4] : b \in B})
  IN <<x0, y0, x1 - x0, y1 - y0>>

\* C26: the global source bbox of a cycle is the smallest rectangle around
\* the bboxes of all existing cels that some entry names, and the whole
\* canvas when none of them has a bbox.
C26_GlobalSourceBbox ==
  Running =>
    cyc.source_bbox_union =
      IF DrawnBoxes = {} THEN <<0, 0, meta.w, meta.h>> ELSE Enclosing(DrawnBoxes)

\* boxes apart from each other, in both layers, one of them from the cache;
\* the rectangle around them is none of them
C26_Witness ==
  /\ Running
  /\ cyc.source_bbox_union \notin DrawnBoxes
  /\ cyc.source_bbox_union # <<0, 0, meta.w, meta.h>>
  /\ cyc.measured # {}
  /\ DOMAIN cyc.bbox_cache \ cyc.measured # {}

\* no cel has a bbox: the whole canvas
C26_WitnessCanvas ==
  /\ Running
  /\ ReferencedCels # {}
  /\ DrawnBoxes = {}
  /\ cyc.source_bbox_union = <<0, 0, 100, 100>>

Clamp(v, hi) == Min2(hi, Max2(0, v))
\* the rectangle of exact arithmetic: the low corner rounded down, the high
\* corner rounded up, for scale = num / den
ExactCrop(src, lw, bh, cw, ch) ==
  LET wide == lw * ch >= bh * cw
      num == IF wide THEN lw ELSE bh
      den == IF wide THEN cw ELSE ch
      floor(v) == (v * num) \div den
      ceil(v) == (v * num + den - 1) \div den
      x0 == Clamp(floor(src[1]), lw)
      y0 == Clamp(floor(src[2]), bh)
      x1 == Clamp(ceil(src[1] + src[3]), lw)
      y1 == Clamp(ceil(src[2] + src[4]), bh)
  IN IF x1 <= x0 \/ y1 <= y0 THEN <<0, 0, lw, bh>>
     ELSE <<x0, y0, x1 - x0, y1 - y0>>

\* C27: the crop rectangle is the source bbox times
\* scale = max(LW/CW, BH/CH), the low corner rounded down and the high corner
\* rounded up, clamped into the panel, and the whole panel when that is empty.
C27_CropRectangle ==
  (call.fn = "crop_rect" /\ call.done) =>
    call.ret = ExactCrop(call.args[1], call.args[2], call.args[3],
                         call.args[4], call.args[5])

\* what the cycle derived is what the previous state holds
StoredUnchanged ==
  /\ cyc.prev.global_sig = cyc.global_sig
  /\ cyc.prev.crop = cyc.crop
  /\ cyc.prev.framesIsDict
  /\ cyc.prev.frames = cyc.current_frame_sigs
\* data.txt, camera.txt and the layerData.txt files whose stamp is not the one
\* of the previous state
ChangedTracked ==
  {x \in TrackedFiles :
     LET was == IF x \in DOMAIN cyc.prev.input_files
                  THEN cyc.prev.input_files[x] ELSE None
     IN was # inputStamps[x]}

\* C28: a cycle that follows a successful one with nothing but data.txt,
\* camera.txt or layerData.txt files changed in between, and that derives the
\* stored global signature, crop rectangle and frame signatures again,
\* recomposites no frame and reports every one of the changed files.
C28_ChangedInputsOnlyReported ==
  (Succeeded /\ hist.since = "input" /\ StoredUnchanged /\ ChangedTracked # {}) =>
    /\ cyc.rebuilt = {}
    /\ \A x \in ChangedTracked :
         \E line \in cyc.changed_input_files :
           line.rel = x /\ (line.removed <=> inputStamps[x] = None)

\* data.txt written again and nothing else
C28_Witness ==
  /\ Succeeded /\ hist.since = "input" /\ StoredUnchanged
  /\ ChangedTracked = {DataTxt}
  /\ cyc.changed_input_files = {[rel |-> DataTxt, removed |-> FALSE]}
  /\ cyc.rebuilt = {}

\* a layerData.txt with another schedule that stacks the same cels
C28_WitnessSchedule ==
  /\ Succeeded /\ hist.since = "input" /\ StoredUnchanged
  /\ entries[1] = << Entry(0, 3), Entry(2, 1) >>
  /\ ChangedTracked = {LayerDataTxt(1)}
  /\ cyc.rebuilt = {}

\* camera.txt deleted
C28_WitnessRemoved ==
  /\ Succeeded /\ hist.since = "input" /\ StoredUnchanged
  /\ [rel |-> CameraTxt, removed |-> TRUE] \in cyc.changed_input_files
  /\ cyc.rebuilt = {}

\* the cels of the running cycle whose signature the previous state caches
\* with a value that is no list of four
InvalidCached ==
  {k \in DOMAIN cyc.bbox_cache \cap DOMAIN cyc.prev.cel_bbox_cache :
     Len(cyc.prev.cel_bbox_cache[k]) # 4}

\* C29: a cel whose signature is cached with a value that is no list of four
\* is not measured and counts as empty, and a cycle that succeeds saves null
\* under that signature.
C29_InvalidCachedBbox ==
  /\ Running =>
       \A k \in InvalidCached : k \notin cyc.measured /\ cyc.bbox_cache[k] = NoBox
  /\ Succeeded =>
       \A k \in InvalidCached : stateFile.cel_bbox_cache[k] = NoBox

\* C30: when a cycle has succeeded, every frame the saved state lists is a
\* whole file made of exactly the cels whose signatures the state records for
\* it, cropped with the crop rectangle the state and the manifest record.
C30_PublishedMatchesState ==
  Succeeded =>
    /\ manifest.exists /\ manifest.whole
    /\ manifest.lines = manifest_lines(cyc.fps, stateFile.crop, cyc.bg,
                                       cyc.frame_names)
    /\ \A f \in DOMAIN stateFile.frames :
         /\ outFiles[f].exists /\ outFiles[f].whole
         /\ outFiles[f].sigs = stateFile.frames[f]
         /\ outFiles[f].crop = stateFile.crop

\* C31: when a cycle has ended, by returning or by raising, every frame that
\* the manifest.txt on disk lists is a file of the output directory.
C31_ManifestFramesExist ==
  (pc = "idle" /\ outcome \in {"ok", "error"} /\ manifest.exists) =>
    \A f \in ManifestFrames : outFiles[f].exists

\* the .png and .txt files of a project tree with their modification times
TrackedTree(t) ==
  [f \in {g \in ProjectFiles : Suffix(g) \in {"png", "txt"}} |-> t[f]]

\* C32: a poll tick after a successful publish that finds a .png or .txt
\* file written, added or removed since the tick of that publish runs a
\* cycle.
C32_NoChangeMissed ==
  (/\ procs[1].pc \in {"publish", "after"}
   /\ procs[1].last_sig # NoSig
   /\ TrackedTree(procs[1].polled) # TrackedTree(procs[1].okPolled)) =>
     procs[1].ran

\* the project's signature is not the recorded one
SigMoved ==
  /\ procs[1].pc \in InLoop
  /\ procs[1].last_sig # NoSig
  /\ project_signature(tree) # procs[1].last_sig

\* C33: the signature recorded by a successful publish is the one sampled at
\* the tick that started it; a tick that starts no cycle found the recorded
\* signature; and while the project's signature is not the recorded one, as
\* after a change made during the cycle, a later tick starts a cycle.
C33_ChangeDuringCycleNotLost ==
  /\ [](procs[1].last_sig # NoSig =>
          procs[1].last_sig = project_signature(procs[1].okPolled))
  /\ []((procs[1].pc = "after" /\ ~procs[1].ran) =>
          project_signature(procs[1].polled) = procs[1].last_sig)
  /\ (SigMoved ~> (procs[1].pc = "publish" \/ ~SigMoved))

\* a cycle started at the first tick after a success, the project as it was
\* when that publish returned and changed since that publish's tick
C33_Witness ==
  /\ procs[1].pc = "publish"
  /\ procs[1].startedUnchanged
  /\ procs[1].polled # procs[1].okPolled
  /\ procs[1].sig # procs[1].last_sig

\* C34: the crop rectangle lies inside the panel and is at least one pixel
\* wide and high.
C34_CropInsidePanel ==
  (call.fn = "crop_rect" /\ call.done) =>
    LET r == call.ret
        lw == call.args[2]
        bh == call.args[3]
    IN /\ 0 <= r[1] /\ 0 <= r[2]
       /\ r[3] >= 1 /\ r[4] >= 1
       /\ r[1] + r[3] <= lw /\ r[2] + r[4] <= bh

\* a bbox mapped below the panel: the whole panel is the crop
C34_Witness ==
  /\ call.fn = "crop_rect" /\ call.done
  /\ call.args = << <<0, 9900, 1, 1>>, 100, 50, 10001, 10001 >>
  /\ call.ret = <<0, 0, 100, 50>>

\* a bbox cut at the bottom edge of the panel
C34_WitnessClamped ==
  /\ call.fn = "crop_rect" /\ call.done
  /\ call.args = << <<30, 30, 50, 50>>, 100, 50, 100, 100 >>
  /\ call.ret = <<30, 30, 50, 20>>

====
